---------------------------- MODULE Spec2Model ----------------------------
(***************************************************************************)
(* Analysis-and-graph core of github2claude: CodeAnalyzer (analyzeFile,    *)
(* buildDependencyGraph, resolveDependencyPath), the analysis loop of      *)
(* generateMarkdownFiles, and the graph analytics of MarkdownGenerator.    *)
(*                                                                         *)
(* Strings that the code takes apart are modelled structurally: a path or  *)
(* an import specifier is the sequence of its '/'-separated segments, and  *)
(* a segment is the sequence of its '.'-separated parts, so that           *)
(*   "/r/a.js"  is  << <<"">>, <<"r">>, <<"a","js">> >>                    *)
(*   "./b"      is  << <<"","">>, <<"b">> >>                               *)
(*   "../a"     is  << <<"","","">>, <<"a">> >>                            *)
(*   "react"    is  << <<"react">> >>                                      *)
(* startsWith('.'), split('.').pop(), dirname, resolve, basename and       *)
(* `path + ext` are then computed on this structure as the code computes   *)
(* them on the characters.                                                 *)
(***************************************************************************)
EXTENDS Integers, Sequences, FiniteSets, TLC

VARIABLES
    fsys,       \* the filesystem snapshot: the set of paths fs.access accepts
    readable,   \* the paths fs.readFile can read
    text,       \* path -> file text (a sequence of statements)
    files,      \* generateMarkdownFiles: the input file list
    pc,         \* position in the pipeline
    idx,        \* generateMarkdownFiles / buildDependencyGraph: loop index
    analyses,   \* generateMarkdownFiles: Map file -> analysis record
    graph,      \* buildDependencyGraph: Map NodeId -> {dependencies, dependedOnBy}
    warned,     \* files for which the analysis loop's catch block ran
    rFrom,      \* resolveDependencyPath: argument fromPath
    rImport,    \* resolveDependencyPath: argument importPath
    rOut,       \* resolveDependencyPath: [id, probes] once it has returned
    calls,      \* the resolveDependencyPath calls made so far: [from, import, id]
    visited,    \* analyzeDataFlows: the global visited set
    flows,      \* analyzeDataFlows: the flows pushed so far
    chains,     \* the chain findLongestDependencyChain returned for each root
    stack,      \* findLongestDependencyChain: the activation records, root first
    flowsOut,   \* analyzeDataFlows: the value returned
    components, \* identifyMainComponents: the value returned
    keyDeps,    \* analyzeKeyDependencies: the value returned
    step,       \* executeCodeAnalysis: position in the function
    progress,   \* the ProgressIndicator singleton, with the lines it has logged
    rmCalls,    \* executeCodeAnalysis: the fs.rm calls of the current call
    pending,    \* executeCodeAnalysis: the error its catch block caught
    result,     \* executeCodeAnalysis: how the last call ended
    runs,       \* the calls of executeCodeAnalysis so far
    tree,       \* scanDirectory: the entries of the scanned directory
    results     \* scanDirectory: the value returned

inputVars == <<fsys, readable, text, files>>
resolveVars == <<rFrom, rImport, rOut, calls>>
flowVars == <<visited, flows, chains, stack, flowsOut>>
archVars == <<components, keyDeps>>
runVars == <<step, progress, rmCalls, pending, result, runs>>
scanVars == <<tree, results>>

vars == <<fsys, readable, text, files, pc, idx, analyses, graph, warned,
          rFrom, rImport, rOut, calls, visited, flows, chains, stack, flowsOut,
          components, keyDeps, step, progress, rmCalls, pending, result, runs,
          tree, results>>

---------------------------------------------------------------------------
(* Bounds of the model *)

\* most statements in the texts of the repository's source files, in total
MaxStmts == 3

\* longest dependencies list of a graph handed to analyzeDataFlows
MaxDeps == 2

---------------------------------------------------------------------------
(* Sequences *)

Range(s) == {s[i] : i \in 1..Len(s)}

Last(s) == s[Len(s)]

Front(s) == SubSeq(s, 1, Len(s) - 1)

NoDup(s) == \A i, j \in 1..Len(s) : s[i] = s[j] => i = j

\* all sequences over S of length at most n
SeqUpTo(S, n) == UNION {[1..k -> S] : k \in 0..n}

---------------------------------------------------------------------------
(* JavaScript Map: insertion-ordered keys and their values *)

EmptyMap == [keys |-> <<>>, val |-> <<>>]

MapHas(m, k) == \E i \in 1..Len(m.keys) : m.keys[i] = k

MapIndex(m, k) == CHOOSE i \in 1..Len(m.keys) : m.keys[i] = k

MapGet(m, k) == m.val[MapIndex(m, k)]

\* Map.prototype.set: an existing key keeps its position
MapSet(m, k, v) ==
    IF MapHas(m, k)
    THEN [m EXCEPT !.val[MapIndex(m, k)] = v]
    ELSE [keys |-> Append(m.keys, k), val |-> Append(m.val, v)]

---------------------------------------------------------------------------
(* Paths and specifiers *)

Seg(name) == <<name>>
Dot == <<"", "">>
DotDot == <<"", "", "">>
RootSeg == <<"">>
Root == <<RootSeg>>

\* String.prototype.startsWith('.') on a specifier
StartsWithDot(p) == Len(p[1]) >= 2 /\ p[1][1] = ""

\* path.dirname of an absolute path
Dirname(p) == IF Len(p) <= 2 THEN Root ELSE Front(p)

\* path.basename
Basename(p) == Last(p)

RECURSIVE Normalize(_, _)
\* path.resolve's normalisation: `abs` is the absolute path so far,
\* `rest` the segments still to apply
Normalize(abs, rest) ==
    IF rest = <<>> THEN abs
    ELSE LET s == Head(rest) IN
         IF s = Dot \/ s = RootSeg THEN Normalize(abs, Tail(rest))
         ELSE IF s = DotDot
              THEN Normalize(IF Len(abs) > 1 THEN Front(abs) ELSE abs,
                             Tail(rest))
              ELSE Normalize(Append(abs, s), Tail(rest))

\* path.resolve(dir, spec) for an absolute dir and a relative spec
PathResolve(dir, spec) == Normalize(Root, Tail(dir) \o spec)

\* resolvedPath + ext, for ext = '.' + e
AppendExt(p, e) ==
    IF Len(p) = 1 THEN Append(p, <<"", e>>)
    ELSE [p EXCEPT ![Len(p)] = Append(@, e)]

\* fsPromises.access resolves
Access(p) == p \in fsys

\* the candidate list with the typed extensions first
extensions_Reordered == <<"ts", "tsx", "js", "jsx">>

extensions == <<"js", "jsx", "ts", "tsx">>

RECURSIVE ProbeExtensions(_, _, _)
\* the loop over `extensions`: probes made so far, next index
ProbeExtensions(resolvedPath, i, probes) ==
    IF i > Len(extensions)
    THEN [id |-> resolvedPath, probes |-> probes]
    ELSE LET cand == AppendExt(resolvedPath, extensions[i]) IN
         IF Access(cand)
         THEN [id |-> cand, probes |-> Append(probes, cand)]
         ELSE ProbeExtensions(resolvedPath, i + 1, Append(probes, cand))

\* resolveDependencyPath that joins every specifier onto the importing
\* file's directory, external or not
ResolveWithProbes_JoinAlways(fromPath, importPath) ==
    LET resolvedPath == PathResolve(Dirname(fromPath), importPath) IN
    IF Access(resolvedPath)
    THEN [id |-> resolvedPath, probes |-> <<resolvedPath>>]
    ELSE IF \E i \in 1..Len(extensions) : Access(AppendExt(resolvedPath, extensions[i]))
         THEN ProbeExtensions(resolvedPath, 1, <<resolvedPath>>)
         ELSE [id |-> importPath, probes |-> <<resolvedPath>>]

\* resolveDependencyPath, with the existence probes it made
ResolveWithProbes(fromPath, importPath) ==
    IF StartsWithDot(importPath)
    THEN LET resolvedPath == PathResolve(Dirname(fromPath), importPath) IN
         IF Access(resolvedPath)
         THEN [id |-> resolvedPath, probes |-> <<resolvedPath>>]
         ELSE ProbeExtensions(resolvedPath, 1, <<resolvedPath>>)
    ELSE [id |-> importPath, probes |-> <<>>]

resolveDependencyPath(fromPath, importPath) ==
    ResolveWithProbes(fromPath, importPath).id


---------------------------------------------------------------------------
(* File texts.  A text is the sequence of its top-level statements; the    *)
(* empty text is the empty string.  babelParser.parse throws on a text     *)
(* holding a statement it cannot recover from.                             *)

ImportStmt(src, local) == [k |-> "import", source |-> src, name |-> local]
ExportStmt(n) == [k |-> "export", source |-> <<>>, name |-> n]
SyntaxError == [k |-> "syntaxError", source |-> <<>>, name |-> ""]

\* babelParser.parse returns an AST
Parses(content) == \A i \in 1..Len(content) : content[i].k # "syntaxError"

ImportEntry(s) == [source |-> s.source, specifiers |-> <<s.name>>]
ExportEntry(s) == [type |-> "named", name |-> s.name]

RECURSIVE ImportsOf(_)
\* the entries the ImportDeclaration visitor pushes, in source order
ImportsOf(content) ==
    IF content = <<>> THEN <<>>
    ELSE IF Head(content).k = "import"
         THEN <<ImportEntry(Head(content))>> \o ImportsOf(Tail(content))
         ELSE ImportsOf(Tail(content))

\* an identifier node; Null is an absent one (`id: null`)
Id(n) == [type |-> "Identifier", name |-> n]
Null == [type |-> "null"]
HasName(node) == "name" \in DOMAIN node

\* a node that is not an identifier: a literal, a pattern
Other(t) == [type |-> t]

\* `function id(params) {}`; id is Null in `export default function () {}`
FunctionDecl(id, params) ==
    [type |-> "FunctionDeclaration", id |-> id, params |-> params,
     async |-> FALSE, generator |-> FALSE]

\* a member of a class body
ClassMethod(n) ==
    [type |-> "ClassMethod", key |-> Id(n), kind |-> "method",
     static |-> FALSE, async |-> FALSE, params |-> <<>>]
ClassProperty(n) == [type |-> "ClassProperty", key |-> Id(n)]

\* `class id extends superClass { body }`; id is Null in
\* `export default class {}`, superClass is Null without `extends`
ClassDecl(id, superClass, body) ==
    [type |-> "ClassDeclaration", id |-> id, superClass |-> superClass,
     body |-> body]

\* a function or class declaration as a statement of its own
DeclStmt(d) == [k |-> "declaration", source |-> <<>>, name |-> "", declaration |-> d]
\* `export function f() {}`, `export class C {}`
ExportDeclStmt(d) ==
    [k |-> "exportDeclaration", source |-> <<>>, name |-> "", declaration |-> d]
\* `export { a, b }`
ExportListStmt(names) ==
    [k |-> "exportList", source |-> <<>>, name |-> "", names |-> names]
\* `export default d`
ExportDefaultStmt(d) ==
    [k |-> "exportDefault", source |-> <<>>, name |-> "", declaration |-> d]

\* the name the ExportDefaultDeclaration visitor gives a default export
DefaultName(declaration) ==
    IF HasName(declaration) THEN declaration.name
    ELSE IF "id" \in DOMAIN declaration /\ HasName(declaration.id)
         THEN declaration.id.name
         ELSE "default"

\* what analyzeJavaScript's ExportNamedDeclaration and
\* ExportDefaultDeclaration visitors push for one statement
ExportEntries(s) ==
    CASE s.k = "export" -> <<ExportEntry(s)>>
      [] s.k = "exportDeclaration" ->
            <<[type |-> "named", name |-> s.declaration.id.name]>>
      [] s.k = "exportList" ->
            [i \in 1..Len(s.names) |-> [type |-> "named", name |-> s.names[i]]]
      [] s.k = "exportDefault" ->
            <<[type |-> "default", name |-> DefaultName(s.declaration)]>>
      [] OTHER -> <<>>

\* what analyzeTypeScript's ExportNamedDeclaration visitor pushes for one
\* statement: it has the declaration branch only, and analyzeTypeScript has
\* no ExportDefaultDeclaration visitor
TSExportEntries(s) ==
    CASE s.k = "export" -> <<ExportEntry(s)>>
      [] s.k = "exportDeclaration" ->
            <<[type |-> "named", name |-> s.declaration.id.name]>>
      [] OTHER -> <<>>

RECURSIVE ExportsOf(_)
\* the entries analyzeJavaScript's export visitors push, in source order
ExportsOf(content) ==
    IF content = <<>> THEN <<>>
    ELSE ExportEntries(Head(content)) \o ExportsOf(Tail(content))

RECURSIVE TSExportsOf(_)
\* the entries analyzeTypeScript's export visitor pushes, in source order
TSExportsOf(content) ==
    IF content = <<>> THEN <<>>
    ELSE TSExportEntries(Head(content)) \o TSExportsOf(Tail(content))

\* the declaration a statement holds, which the traversal visits after the
\* statement itself
Declares(s, t) == "declaration" \in DOMAIN s /\ s.declaration.type = t

\* p.name || 'unnamed'
ParamName(p) == IF HasName(p) THEN p.name ELSE "unnamed"

\* the object the FunctionDeclaration visitor pushes (loc, the source
\* position, is left out)
FunctionEntry(d) ==
    [name |-> d.id.name,
     params |-> [i \in 1..Len(d.params) |-> ParamName(d.params[i])],
     async |-> d.async,
     generator |-> d.generator]

\* the try block of the FunctionDeclaration visitor: reading the name of an
\* absent id throws, the catch skips the function
FunctionEntries(s) ==
    IF Declares(s, "FunctionDeclaration") /\ HasName(s.declaration.id)
    THEN <<FunctionEntry(s.declaration)>>
    ELSE <<>>

RECURSIVE FunctionsOf(_)
FunctionsOf(content) ==
    IF content = <<>> THEN <<>>
    ELSE FunctionEntries(Head(content)) \o FunctionsOf(Tail(content))

MethodEntry(node) ==
    [name |-> node.key.name, kind |-> node.kind, static |-> node.static,
     async |-> node.async,
     params |-> [i \in 1..Len(node.params) |-> ParamName(node.params[i])]]

\* the classInfo the ClassDeclaration visitor builds; superClass?.name of an
\* absent superClass is undefined
ClassEntry(d) ==
    LET methods == SelectSeq(d.body, LAMBDA node : node.type = "ClassMethod") IN
    [name |-> d.id.name,
     superClass |-> IF HasName(d.superClass) THEN d.superClass.name ELSE "undefined",
     methods |-> [i \in 1..Len(methods) |-> MethodEntry(methods[i])]]

\* the try block of the ClassDeclaration visitor
ClassEntries(s) ==
    IF Declares(s, "ClassDeclaration") /\ HasName(s.declaration.id)
    THEN <<ClassEntry(s.declaration)>>
    ELSE <<>>

RECURSIVE ClassesOf(_)
ClassesOf(content) ==
    IF content = <<>> THEN <<>>
    ELSE ClassEntries(Head(content)) \o ClassesOf(Tail(content))

---------------------------------------------------------------------------
(* TypeScript type nodes.  Every node has its `type`; the other fields are *)
(* those Babel gives the node.  A type annotation `: T` is a               *)
(* TSTypeAnnotation node whose typeAnnotation is the type T.               *)

Keyword(t) == [type |-> t]
TSArrayType(elem) == [type |-> "TSArrayType", elementType |-> elem]
TSTypeReference(n) == [type |-> "TSTypeReference", typeName |-> [name |-> n]]
\* `readonly T`, `keyof T`: a type that holds its operand as typeAnnotation
TSTypeOperator(t) == [type |-> "TSTypeOperator", typeAnnotation |-> t]
TSTypeAnnotation(t) == [type |-> "TSTypeAnnotation", typeAnnotation |-> t]

\* an absent annotation
Undefined == [type |-> "undefined"]

RECURSIVE getTypeScriptType(_)
getTypeScriptType(typeAnnotation) ==
    IF typeAnnotation.type = "undefined" THEN "any"
    ELSE IF "typeAnnotation" \notin DOMAIN typeAnnotation THEN "any"
    ELSE LET type == typeAnnotation.typeAnnotation IN
         CASE type.type = "TSStringKeyword" -> "string"
           [] type.type = "TSNumberKeyword" -> "number"
           [] type.type = "TSBooleanKeyword" -> "boolean"
           [] type.type = "TSArrayType" ->
                 getTypeScriptType([type |-> "", typeAnnotation |-> type.elementType])
                    \o "[]"
           [] type.type = "TSTypeReference" -> type.typeName.name
           [] OTHER -> "any"

\* `interface n { key: T; ... }`: props are the TSPropertySignature nodes,
\* each [key, typeAnnotation], typeAnnotation a TSTypeAnnotation or absent
InterfaceStmt(n, props) ==
    [k |-> "interface", source |-> <<>>, name |-> n, props |-> props]

\* `type n = T`: the declaration holds the type T itself as typeAnnotation
TypeAliasStmt(n, t) ==
    [k |-> "typeAlias", source |-> <<>>, name |-> n, typeAnnotation |-> t]

\* the entry the TSInterfaceDeclaration visitor pushes
InterfaceEntry(s) ==
    [name |-> s.name,
     properties |-> [i \in 1..Len(s.props) |->
                        [name |-> s.props[i].key,
                         type |-> getTypeScriptType(s.props[i].typeAnnotation)]]]

\* the entry the TSTypeAliasDeclaration visitor pushes
TypeAliasEntry(s) == [name |-> s.name, type |-> getTypeScriptType(s.typeAnnotation)]

RECURSIVE InterfacesOf(_)
InterfacesOf(content) ==
    IF content = <<>> THEN <<>>
    ELSE IF Head(content).k = "interface"
         THEN <<InterfaceEntry(Head(content))>> \o InterfacesOf(Tail(content))
         ELSE InterfacesOf(Tail(content))

RECURSIVE TypesOf(_)
TypesOf(content) ==
    IF content = <<>> THEN <<>>
    ELSE IF Head(content).k = "typeAlias"
         THEN <<TypeAliasEntry(Head(content))>> \o TypesOf(Tail(content))
         ELSE TypesOf(Tail(content))

---------------------------------------------------------------------------
(* Completions: a call either returns a value or throws *)

Return(v) == [threw |-> FALSE, value |-> v]
Throw(e) == [threw |-> TRUE, value |-> e]

---------------------------------------------------------------------------
(* CodeAnalyzer.analyzeFile and the analysers it dispatches to *)

\* String.prototype.toLowerCase on the extensions the model uses
Lower(s) == CASE s = "JS" -> "js" [] s = "TS" -> "ts" [] OTHER -> s

RECURSIVE AfterLastDot(_, _)
\* filePath.split('.').pop(): what follows the last '.', found from the
\* last segment backwards
AfterLastDot(p, i) ==
    IF i = 0 THEN p
    ELSE IF Len(p[i]) >= 2
         THEN <<Seg(Last(p[i]))>> \o SubSeq(p, i + 1, Len(p))
         ELSE AfterLastDot(p, i - 1)

\* filePath.split('.').pop()?.toLowerCase()
ExtensionOf(filePath) ==
    LET e == AfterLastDot(filePath, Len(filePath)) IN
    [i \in 1..Len(e) |-> [j \in 1..Len(e[i]) |-> Lower(e[i][j])]]

IsExt(filePath, names) == \E n \in names : ExtensionOf(filePath) = <<Seg(n)>>

\* a traversal whose visitors have no try/catch of their own: the first
\* construct that cannot be read ends the traversal with a TypeError
AnalyzeJavaScriptBody_Abort(content) ==
    IF ~Parses(content) THEN Throw("SyntaxError")
    ELSE IF \E i \in 1..Len(content) :
               /\ "declaration" \in DOMAIN content[i]
               /\ "id" \in DOMAIN content[i].declaration
               /\ ~HasName(content[i].declaration.id)
         THEN Throw("TypeError")
         ELSE Return([imports |-> ImportsOf(content),
                      exports |-> ExportsOf(content),
                      functions |-> FunctionsOf(content),
                      classes |-> ClassesOf(content),
                      content |-> content])

\* the try block of analyzeJavaScript
AnalyzeJavaScriptBody(content) ==
    IF ~Parses(content) THEN Throw("SyntaxError")
    ELSE Return([imports |-> ImportsOf(content),
                 exports |-> ExportsOf(content),
                 functions |-> FunctionsOf(content),
                 classes |-> ClassesOf(content),
                 content |-> content])

\* analyzeJavaScript without its catch: the parser's error propagates
analyzeJavaScript_NoCatch(content) == AnalyzeJavaScriptBody(content)

analyzeJavaScript(content) ==
    LET r == AnalyzeJavaScriptBody(content) IN
    IF r.threw
    THEN Return([imports |-> <<>>, exports |-> <<>>, functions |-> <<>>,
                 classes |-> <<>>, content |-> content])
    ELSE r

\* the try block of analyzeTypeScript
AnalyzeTypeScriptBody(content) ==
    IF ~Parses(content) THEN Throw("SyntaxError")
    ELSE Return([imports |-> ImportsOf(content),
                 exports |-> TSExportsOf(content),
                 interfaces |-> InterfacesOf(content),
                 types |-> TypesOf(content),
                 content |-> content])

analyzeTypeScript(content) ==
    LET r == AnalyzeTypeScriptBody(content) IN
    IF r.threw
    THEN Return([imports |-> <<>>, exports |-> <<>>, interfaces |-> <<>>,
                 types |-> <<>>, content |-> content])
    ELSE r

\* `size` is content.length, counted here in statements
analyzeGenericFile(content, filePath) ==
    Return([type |-> "generic",
            extension |-> ExtensionOf(filePath),
            size |-> Len(content),
            content |-> content])

\* the try block of analyzeFile
AnalyzeFileBody(filePath) ==
    IF filePath \notin readable THEN Throw("ENOENT")
    ELSE LET content == text[filePath] IN
         IF IsExt(filePath, {"js", "jsx"}) THEN analyzeJavaScript(content)
         ELSE IF IsExt(filePath, {"ts", "tsx"}) THEN analyzeTypeScript(content)
         ELSE analyzeGenericFile(content, filePath)

\* analyzeFile without its catch: a failed read propagates
analyzeFile_NoCatch(filePath) == AnalyzeFileBody(filePath)

analyzeFile(filePath) ==
    LET r == AnalyzeFileBody(filePath) IN
    IF r.threw
    THEN Return([imports |-> <<>>, exports |-> <<>>, functions |-> <<>>,
                 content |-> <<>>])
    ELSE r

---------------------------------------------------------------------------
(* ProgressIndicator (progress-util.js).  A ProgressIndicator p is         *)
(* [currentTask, subtasks, out]: out holds the lines it has written to the *)
(* console, each [kind, text], text being the parts of the message.  The   *)
(* start times, used for the durations shown only, are left out.           *)

Line(kind, parts) == [kind |-> kind, text |-> parts]

\* the state after construction
NewProgress == [currentTask |-> "null", subtasks |-> EmptyMap, out |-> <<>>]

start(p, task) ==
    [currentTask |-> task,
     subtasks |-> EmptyMap,
     out |-> Append(p.out, Line("start", <<task>>))]

addSubtask(p, name) ==
    [p EXCEPT !.subtasks = MapSet(@, name, [completed |-> FALSE]),
              !.out = Append(@, Line("starting", <<name>>))]

completeSubtask(p, name) ==
    IF MapHas(p.subtasks, name) /\ ~MapGet(p.subtasks, name).completed
    THEN [p EXCEPT !.subtasks = MapSet(@, name, [completed |-> TRUE]),
                   !.out = Append(@, Line("completed", <<name>>))]
    ELSE p

error(p, message) == [p EXCEPT !.out = Append(@, Line("error", message))]

warn(p, message) == [p EXCEPT !.out = Append(@, Line("warn", message))]

RECURSIVE FinishWarnings(_, _, _)
\* the loop of finish over the entries of subtasks, in insertion order
FinishWarnings(p, st, i) ==
    IF i > Len(st.keys) THEN p
    ELSE FinishWarnings(IF ~st.val[i].completed
                        THEN warn(p, <<"Subtask not completed: ", st.keys[i]>>)
                        ELSE p,
                        st, i + 1)

finish(p) ==
    FinishWarnings([p EXCEPT !.out = Append(@, Line("finished", <<p.currentTask>>))],
                   p.subtasks, 1)

\* executeCodeAnalysis has not been called
RunNotStarted ==
    /\ step = "idle"
    /\ progress = NewProgress
    /\ rmCalls = 0
    /\ pending = "none"
    /\ result = Return("none")
    /\ runs = 0

\* scanDirectory has not been called
ScanNotRun ==
    /\ tree = <<>>
    /\ results = <<>>

---------------------------------------------------------------------------
(* CodeAnalyzer.buildDependencyGraph *)

\* analysis.imports?.map(imp => imp.source) || []
ImportSources(analysis) ==
    IF "imports" \in DOMAIN analysis
    THEN [i \in 1..Len(analysis.imports) |-> analysis.imports[i].source]
    ELSE <<>>

RECURSIVE FirstPass_SkipNoImports(_, _, _)
\* a first loop that skips the records without an `imports` field
FirstPass_SkipNoImports(an, i, g) ==
    IF i > Len(an.keys) THEN g
    ELSE FirstPass_SkipNoImports(an, i + 1,
            IF "imports" \in DOMAIN an.val[i]
            THEN MapSet(g, an.keys[i],
                        [dependencies |-> ImportSources(an.val[i]),
                         dependedOnBy |-> <<>>])
            ELSE g)

RECURSIVE FirstPass(_, _, _)
\* the first loop, from entry i of `an` on
FirstPass(an, i, g) ==
    IF i > Len(an.keys) THEN g
    ELSE FirstPass(an, i + 1,
                   MapSet(g, an.keys[i],
                          [dependencies |-> ImportSources(an.val[i]),
                           dependedOnBy |-> <<>>]))

\* a push that creates the target's node when the graph has none
PushDependedOnBy_Lazy(g, dep, filePath) ==
    IF MapHas(g, dep)
    THEN LET n == MapGet(g, dep) IN
         MapSet(g, dep, [n EXCEPT !.dependedOnBy = Append(@, filePath)])
    ELSE MapSet(g, dep, [dependencies |-> <<>>, dependedOnBy |-> <<filePath>>])

\* a push of the target's own id instead of the importing file's
PushDependedOnBy_PushDep(g, dep, filePath) ==
    IF MapHas(g, dep)
    THEN LET n == MapGet(g, dep) IN
         MapSet(g, dep, [n EXCEPT !.dependedOnBy = Append(@, dep)])
    ELSE g

\* depNode.dependedOnBy.push(filePath), when graph.get(dep) is a node
PushDependedOnBy(g, dep, filePath) ==
    IF MapHas(g, dep)
    THEN LET n == MapGet(g, dep) IN
         MapSet(g, dep, [n EXCEPT !.dependedOnBy = Append(@, filePath)])
    ELSE g

RECURSIVE ReverseDeps(_, _, _, _)
\* the loop `for (const dep of resolvedDeps)`, from entry i on
ReverseDeps(g, resolvedDeps, i, filePath) ==
    IF i > Len(resolvedDeps) THEN g
    ELSE ReverseDeps(PushDependedOnBy(g, resolvedDeps[i], filePath),
                     resolvedDeps, i + 1, filePath)

RECURSIVE Dedup(_, _)
\* s without the entries already seen
Dedup(s, seen) ==
    IF s = <<>> THEN <<>>
    ELSE IF Head(s) \in seen THEN Dedup(Tail(s), seen)
         ELSE <<Head(s)>> \o Dedup(Tail(s), seen \cup {Head(s)})

\* a resolution that keeps each resolved id once
ResolveAll_Dedup(filePath, deps) ==
    Dedup([i \in 1..Len(deps) |-> resolveDependencyPath(filePath, deps[i])], {})

\* a resolution that filters out a file's imports of itself
ResolveAll_NoSelf(filePath, deps) ==
    SelectSeq([i \in 1..Len(deps) |-> resolveDependencyPath(filePath, deps[i])],
              LAMBDA d : d # filePath)

\* Promise.all(node.dependencies.map(dep => resolveDependencyPath(filePath, dep)))
ResolveAll(filePath, deps) ==
    [i \in 1..Len(deps) |-> resolveDependencyPath(filePath, deps[i])]

\* an iteration that builds the reverse edges from the unresolved sources
SecondPassNode_StaleDeps(g, filePath) ==
    LET node == MapGet(g, filePath)
        resolvedDeps == ResolveAll(filePath, node.dependencies)
        g1 == MapSet(g, filePath, [node EXCEPT !.dependencies = resolvedDeps])
    IN  ReverseDeps(g1, node.dependencies, 1, filePath)

\* one iteration of the second loop
SecondPassNode(g, filePath) ==
    LET node == MapGet(g, filePath)
        resolvedDeps == ResolveAll(filePath, node.dependencies)
        g1 == MapSet(g, filePath, [node EXCEPT !.dependencies = resolvedDeps])
    IN  ReverseDeps(g1, resolvedDeps, 1, filePath)

---------------------------------------------------------------------------
(* The repository the pipeline runs on *)

DirR == <<RootSeg, Seg("r")>>
DirLib == <<RootSeg, Seg("r"), Seg("lib")>>
Dirs == {Root, DirR, DirLib}

\* /r/a.js, /r/lib/b.ts, /r/x.md: the files a scan may list
FileA == <<RootSeg, Seg("r"), <<"a", "js">>>>
FileB == <<RootSeg, Seg("r"), Seg("lib"), <<"b", "ts">>>>
FileC == <<RootSeg, Seg("r"), <<"x", "md">>>>
FileUniverse == {FileA, FileB, FileC}

\* /r/lib/b.js: a file that may exist but is never listed (an excluded file)
FileX == <<RootSeg, Seg("r"), Seg("lib"), <<"b", "js">>>>

\* './a', '../a', './lib/b', './lib/b.ts', 'react'
ImpDotA == <<Dot, Seg("a")>>
ImpUpA == <<DotDot, Seg("a")>>
ImpLibB == <<Dot, Seg("lib"), Seg("b")>>
ImpLibBts == <<Dot, Seg("lib"), <<"b", "ts">>>>
ImpReact == <<Seg("react")>>
Specifiers == {ImpDotA, ImpUpA, ImpLibB, ImpLibBts, ImpReact}

Stmts == {ImportStmt(s, "x") : s \in Specifiers} \cup {SyntaxError}

\* the text of /r/x.md; no analyser parses it, it matters only as `content`
GenericText == <<ImportStmt(ImpReact, "x")>>

NoCall == [id |-> <<>>, probes |-> <<>>]

\* `components` before identifyMainComponents has run, and `keyDeps` before
\* analyzeKeyDependencies has: no component, no line
NotRun == <<>>
KeyDepsNotRun == [fallback |-> FALSE, lines |-> <<>>]

---------------------------------------------------------------------------
(* The pipeline of generateMarkdownFiles: analysis loop, then graph build *)

\* the text of f when the analysis reads it: a listed, readable source
\* file holds any text of at most n statements
TextChoices(f, n) ==
    IF f \in readable /\ f \in Range(files) THEN SeqUpTo(Stmts, n) ELSE {<<>>}

Init ==
    /\ \E extra \in SUBSET {FileA, FileB, FileX} : fsys = Dirs \cup {FileC} \cup extra
    /\ \E rd \in SUBSET (fsys \cap {FileA, FileB}) : readable = rd \cup {FileC}
    /\ files \in {fl \in SeqUpTo(FileUniverse, Cardinality(FileUniverse)) : NoDup(fl)}
    /\ \E ta \in TextChoices(FileA, MaxStmts) :
         \E tb \in TextChoices(FileB, MaxStmts - Len(ta)) :
            text = [f \in FileUniverse |->
                      IF f = FileA THEN ta ELSE IF f = FileB THEN tb ELSE GenericText]
    /\ pc = "analyze"
    /\ idx = 1
    /\ analyses = EmptyMap
    /\ graph = EmptyMap
    /\ warned = {}
    /\ rFrom = <<>>
    /\ rImport = <<>>
    /\ rOut = NoCall
    /\ calls = <<>>
    /\ visited = {}
    /\ flows = <<>>
    /\ chains = <<>>
    /\ stack = <<>>
    /\ flowsOut = <<>>
    /\ components = NotRun
    /\ keyDeps = KeyDepsNotRun
    /\ RunNotStarted
    /\ ScanNotRun

\* an iteration that reports the file when its extraction failed
AnalyzeFileStep_WarnFailed ==
    /\ pc = "analyze"
    /\ idx <= Len(files)
    /\ LET file == files[idx]
           r == analyzeFile(file)
       IN  /\ analyses' = MapSet(analyses, file, r.value)
           /\ warned' = IF file \notin readable \/ ~Parses(text[file])
                        THEN warned \cup {file} ELSE warned
    /\ idx' = idx + 1
    /\ UNCHANGED <<runVars, scanVars, inputVars, archVars, pc, graph, resolveVars, flowVars>>

\* one iteration of the loop `for (const [index, file] of files.entries())`
AnalyzeFileStep ==
    /\ pc = "analyze"
    /\ idx <= Len(files)
    /\ LET file == files[idx]
           r == analyzeFile(file)
       IN  IF r.threw
           THEN /\ warned' = warned \cup {file}
                /\ UNCHANGED analyses
           ELSE /\ analyses' = MapSet(analyses, file, r.value)
                /\ UNCHANGED warned
    /\ idx' = idx + 1
    /\ UNCHANGED <<runVars, scanVars, inputVars, archVars, pc, graph, resolveVars, flowVars>>

\* buildDependencyGraph called from inside the analysis loop
BuildFirstPass_Early ==
    /\ pc = "analyze"
    /\ graph' = FirstPass(analyses, 1, EmptyMap)
    /\ pc' = "secondPass"
    /\ idx' = 1
    /\ UNCHANGED <<runVars, scanVars, inputVars, archVars, analyses, warned, resolveVars, flowVars>>

\* buildDependencyGraph is called: the first loop
BuildFirstPass ==
    /\ pc = "analyze"
    /\ idx > Len(files)
    /\ graph' = FirstPass(analyses, 1, EmptyMap)
    /\ pc' = "secondPass"
    /\ idx' = 1
    /\ UNCHANGED <<runVars, scanVars, inputVars, archVars, analyses, warned, resolveVars, flowVars>>

\* one iteration of the second loop `for (const [filePath, node] of graph.entries())`
BuildSecondPassStep ==
    /\ pc = "secondPass"
    /\ idx <= Len(graph.keys)
    /\ graph' = SecondPassNode(graph, graph.keys[idx])
    /\ idx' = idx + 1
    /\ UNCHANGED <<runVars, scanVars, inputVars, archVars, pc, analyses, warned, resolveVars, flowVars>>

\* buildDependencyGraph returns the graph
BuildReturn ==
    /\ pc = "secondPass"
    /\ idx > Len(graph.keys)
    /\ pc' = "built"
    /\ UNCHANGED <<runVars, scanVars, inputVars, archVars, idx, analyses, graph, warned, resolveVars, flowVars>>

Next == AnalyzeFileStep \/ BuildFirstPass \/ BuildSecondPassStep \/ BuildReturn

Spec == Init /\ [][Next]_vars

---------------------------------------------------------------------------
(* analyzeFile on a TypeScript file holding one interface or one type alias *)

\* the nesting of array types and type operators
MaxTypeDepth == 2

\* the properties of an interface
MaxProps == 2

RECURSIVE TypesUpTo(_)
\* string, number, boolean, a reference to Point, a union (one of the types
\* that are none of these), and arrays and type operators over them
TypesUpTo(d) ==
    LET base == {Keyword("TSStringKeyword"), Keyword("TSNumberKeyword"),
                 Keyword("TSBooleanKeyword"), TSTypeReference("Point"),
                 Keyword("TSUnionType")}
    IN  IF d = 0 THEN base
        ELSE base \cup {TSArrayType(t) : t \in TypesUpTo(d - 1)}
                  \cup {TSTypeOperator(t) : t \in TypesUpTo(d - 1)}

\* a property `x: T`, or `x` without an annotation
PropChoices ==
    {[key |-> "x", typeAnnotation |-> TSTypeAnnotation(t)] : t \in TypesUpTo(MaxTypeDepth)}
    \cup {[key |-> "x", typeAnnotation |-> Undefined]}

TypeStmts ==
    {InterfaceStmt("Shape", props) : props \in SeqUpTo(PropChoices, MaxProps)}
    \cup {TypeAliasStmt("ID", t) : t \in TypesUpTo(MaxTypeDepth)}

InitTypes ==
    /\ fsys = Dirs \cup FileUniverse
    /\ readable = FileUniverse
    /\ files = <<FileB>>
    /\ \E s \in TypeStmts :
          text = [f \in FileUniverse |-> IF f = FileB THEN <<s>> ELSE <<>>]
    /\ pc = "analyze"
    /\ idx = 1
    /\ analyses = EmptyMap
    /\ graph = EmptyMap
    /\ warned = {}
    /\ rFrom = <<>>
    /\ rImport = <<>>
    /\ rOut = NoCall
    /\ calls = <<>>
    /\ visited = {}
    /\ flows = <<>>
    /\ chains = <<>>
    /\ stack = <<>>
    /\ flowsOut = <<>>
    /\ components = NotRun
    /\ keyDeps = KeyDepsNotRun
    /\ RunNotStarted
    /\ ScanNotRun

NextTypes == AnalyzeFileStep

SpecTypes == InitTypes /\ [][NextTypes]_vars

---------------------------------------------------------------------------
(* analyzeFile on a.js and b.ts holding the same statements *)

\* the statements of a file
MaxConstructs == 3

ConstructStmts ==
    {ImportStmt(ImpReact, "React"),
     ExportStmt("foo"),
     ExportListStmt(<<"a", "b">>),
     ExportDefaultStmt(Id("foo")),
     ExportDefaultStmt(Other("NumericLiteral")),
     ExportDefaultStmt(FunctionDecl(Id("main"), <<>>)),
     ExportDefaultStmt(FunctionDecl(Null, <<>>)),
     ExportDefaultStmt(ClassDecl(Null, Null, <<>>)),
     ExportDeclStmt(FunctionDecl(Id("g"), <<>>)),
     DeclStmt(FunctionDecl(Id("f"), <<Id("p"), Other("ObjectPattern")>>)),
     DeclStmt(ClassDecl(Id("C"), Id("Base"), <<ClassMethod("m"), ClassProperty("x")>>))}

InitConstructs ==
    /\ fsys = Dirs \cup FileUniverse
    /\ readable = FileUniverse
    /\ files = <<FileA, FileB>>
    /\ \E c \in SeqUpTo(ConstructStmts, MaxConstructs) :
          text = [f \in FileUniverse |-> IF f = FileC THEN <<>> ELSE c]
    /\ pc = "analyze"
    /\ idx = 1
    /\ analyses = EmptyMap
    /\ graph = EmptyMap
    /\ warned = {}
    /\ rFrom = <<>>
    /\ rImport = <<>>
    /\ rOut = NoCall
    /\ calls = <<>>
    /\ visited = {}
    /\ flows = <<>>
    /\ chains = <<>>
    /\ stack = <<>>
    /\ flowsOut = <<>>
    /\ components = NotRun
    /\ keyDeps = KeyDepsNotRun
    /\ RunNotStarted
    /\ ScanNotRun

NextConstructs == AnalyzeFileStep

SpecConstructs == InitConstructs /\ [][NextConstructs]_vars

---------------------------------------------------------------------------
(* resolveDependencyPath called on its own *)

\* /r/lib/b and the paths the extension probes of './lib/b' try
Cand == <<RootSeg, Seg("r"), Seg("lib"), Seg("b")>>
CandJs == <<RootSeg, Seg("r"), Seg("lib"), <<"b", "js">>>>
CandJsx == <<RootSeg, Seg("r"), Seg("lib"), <<"b", "jsx">>>>
CandTs == <<RootSeg, Seg("r"), Seg("lib"), <<"b", "ts">>>>
CandTsx == <<RootSeg, Seg("r"), Seg("lib"), <<"b", "tsx">>>>
Candidates == {Cand, CandJs, CandJsx, CandTs, CandTsx}

\* './b', '.', '..', '../../../a', '.env', '', 'lib/b'
ImpDotB == <<Dot, Seg("b")>>
ImpHere == <<Dot>>
ImpUp == <<DotDot>>
ImpUpUpUpA == <<DotDot, DotDot, DotDot, Seg("a")>>
ImpDotEnv == <<<<"", "env">>>>
ImpEmpty == <<Seg("")>>
ImpBareLibB == <<Seg("lib"), Seg("b")>>
ResolveSpecifiers ==
    Specifiers \cup {ImpDotB, ImpHere, ImpUp, ImpUpUpUpA, ImpDotEnv, ImpEmpty, ImpBareLibB}

InitResolve ==
    /\ \E extra \in SUBSET Candidates : fsys = Dirs \cup {FileA} \cup extra
    /\ readable = fsys \cap FileUniverse
    /\ text = [f \in FileUniverse |-> <<>>]
    /\ files = <<>>
    /\ pc = "resolveCall"
    /\ idx = 1
    /\ analyses = EmptyMap
    /\ graph = EmptyMap
    /\ warned = {}
    /\ rFrom \in {FileA, FileB}
    /\ rImport \in ResolveSpecifiers
    /\ rOut = NoCall
    /\ calls = <<>>
    /\ visited = {}
    /\ flows = <<>>
    /\ chains = <<>>
    /\ stack = <<>>
    /\ flowsOut = <<>>
    /\ components = NotRun
    /\ keyDeps = KeyDepsNotRun
    /\ RunNotStarted
    /\ ScanNotRun

\* the calls one analyzer makes in a row
MaxCalls == 3

\* resolveDependencyPath that joins the specifier onto the directory left
\* over from the call before
ResolveCall_StaleDir ==
    /\ pc = "resolveCall"
    /\ rOut' = ResolveWithProbes(IF calls = <<>> THEN rFrom ELSE Last(calls).from,
                                 rImport)
    /\ calls' = Append(calls, [from |-> rFrom, import |-> rImport, id |-> rOut'.id])
    /\ pc' = "resolved"
    /\ UNCHANGED <<runVars, scanVars, inputVars, archVars, idx, analyses, graph, warned, rFrom, rImport, flowVars>>

\* resolveDependencyPath(rFrom, rImport) runs and returns
ResolveCall ==
    /\ pc = "resolveCall"
    /\ rOut' = ResolveWithProbes(rFrom, rImport)
    /\ calls' = Append(calls, [from |-> rFrom, import |-> rImport, id |-> rOut'.id])
    /\ pc' = "resolved"
    /\ UNCHANGED <<runVars, scanVars, inputVars, archVars, idx, analyses, graph, warned, rFrom, rImport, flowVars>>

\* the caller moves on to its next dependency: the same specifier or './b',
\* imported by either file
ResolveAgain ==
    /\ pc = "resolved"
    /\ Len(calls) < MaxCalls
    /\ rFrom' \in {FileA, FileB}
    /\ rImport' \in {rImport, ImpDotB}
    /\ pc' = "resolveCall"
    /\ UNCHANGED <<runVars, scanVars, inputVars, archVars, idx, analyses, graph, warned, rOut, calls, flowVars>>

NextResolve == ResolveCall \/ ResolveAgain

SpecResolve == InitResolve /\ [][NextResolve]_vars

---------------------------------------------------------------------------
(* MarkdownGenerator.identifyMainComponents and analyzeKeyDependencies:    *)
(* a count per name in a Map, the entries sorted by count and cut.         *)

\* Array.from(map.entries()): the [key, value] pairs in insertion order
Entries(m) == [i \in 1..Len(m.keys) |-> <<m.keys[i], m.val[i]>>]

\* counts.set(k, (counts.get(k) || 0) + 1)
Bump(counts, k) ==
    MapSet(counts, k, (IF MapHas(counts, k) THEN MapGet(counts, k) ELSE 0) + 1)

RECURSIVE SortByCount(_)
\* entries.sort((a, b) => b[1] - a[1]): descending by count, and stable, so
\* entries of equal count keep their order
SortByCount(entries) ==
    IF entries = <<>> THEN <<>>
    ELSE LET m == CHOOSE i \in 1..Len(entries) :
                    /\ \A j \in 1..Len(entries) : entries[j][2] <= entries[i][2]
                    /\ \A j \in 1..(i - 1) : entries[j][2] < entries[i][2]
         IN <<entries[m]>> \o
            SortByCount(SubSeq(entries, 1, m - 1) \o SubSeq(entries, m + 1, Len(entries)))

\* Array.prototype.slice(0, n)
Slice(s, n) == SubSeq(s, 1, IF Len(s) < n THEN Len(s) ELSE n)

RECURSIVE CountExports_OncePerFile(_, _, _)
\* a count of the files exporting each name
CountExports_OncePerFile(scores, exports, i) ==
    IF i > Len(exports) THEN scores
    ELSE CountExports_OncePerFile(
             IF \E j \in 1..(i - 1) : exports[j].name = exports[i].name
             THEN scores ELSE Bump(scores, exports[i].name),
             exports, i + 1)

RECURSIVE CountExports(_, _, _)
\* for (const exp of analysis.exports): one more for exp.name
CountExports(scores, exports, i) ==
    IF i > Len(exports) THEN scores
    ELSE CountExports(Bump(scores, exports[i].name), exports, i + 1)

RECURSIVE ComponentScores(_, _, _)
\* for (const [file, analysis] of analyses.entries()), from entry i on; a
\* record without exports, or with none, is passed over
ComponentScores(an, i, scores) ==
    IF i > Len(an.keys) THEN scores
    ELSE LET analysis == an.val[i] IN
         ComponentScores(an, i + 1,
             IF "exports" \in DOMAIN analysis /\ Len(analysis.exports) > 0
             THEN CountExports(scores, analysis.exports, 1)
             ELSE scores)

\* the components returned; `score` stands for the description
\* `Core component (referenced ${score} times)`
identifyMainComponents(an) ==
    LET top == Slice(SortByCount(Entries(ComponentScores(an, 1, EmptyMap))), 10) IN
    [i \in 1..Len(top) |-> [name |-> top[i][1], score |-> top[i][2]]]

RECURSIVE CountDeps_OncePerNode(_, _, _)
\* a count of the nodes importing each dependency
CountDeps_OncePerNode(counts, dependencies, i) ==
    IF i > Len(dependencies) THEN counts
    ELSE CountDeps_OncePerNode(
             IF \E j \in 1..(i - 1) : dependencies[j] = dependencies[i]
             THEN counts ELSE Bump(counts, dependencies[i]),
             dependencies, i + 1)

RECURSIVE CountDeps(_, _, _)
\* for (const dep of deps.dependencies): one more for dep
CountDeps(counts, dependencies, i) ==
    IF i > Len(dependencies) THEN counts
    ELSE CountDeps(Bump(counts, dependencies[i]), dependencies, i + 1)

RECURSIVE DependencyCounts(_, _, _)
\* for (const [_, deps] of dependencyGraph.entries()), from entry i on
DependencyCounts(g, i, counts) ==
    IF i > Len(g.keys) THEN counts
    ELSE DependencyCounts(g, i + 1, CountDeps(counts, g.val[i].dependencies, 1))

\* the try block of analyzeKeyDependencies; a line `- ${dep}: Referenced
\* ${count} times` is the pair [dep, count]
AnalyzeKeyDependenciesBody(g) ==
    LET top == Slice(SortByCount(Entries(DependencyCounts(g, 1, EmptyMap))), 5) IN
    Return([i \in 1..Len(top) |-> [dep |-> top[i][1], count |-> top[i][2]]])

\* the text returned: the lines joined, or in the catch block the text
\* 'No dependency information available'
analyzeKeyDependencies(g) ==
    LET r == AnalyzeKeyDependenciesBody(g) IN
    IF r.threw THEN [fallback |-> TRUE, lines |-> <<>>]
    ELSE [fallback |-> FALSE, lines |-> r.value]

\* addArchitectureSection: const components = await this.identifyMainComponents(analyses),
\* then analyzeDataFlows is entered
IdentifyMainComponents ==
    /\ pc = "components"
    /\ components' = identifyMainComponents(analyses)
    /\ pc' = "flowLoop"
    /\ idx' = 1
    /\ UNCHANGED <<runVars, scanVars, inputVars, analyses, graph, warned, resolveVars, flowVars,
                   keyDeps>>

\* addArchitectureSection: ${await this.analyzeKeyDependencies(dependencyGraph)}
KeyDependencies ==
    /\ pc = "flowsDone"
    /\ keyDeps' = analyzeKeyDependencies(graph)
    /\ pc' = "architectureDone"
    /\ UNCHANGED <<runVars, scanVars, inputVars, idx, analyses, graph, warned, resolveVars, flowVars,
                   components>>

---------------------------------------------------------------------------
(* identifyMainComponents called on its own *)

\* the export statements a source file may hold
MaxExports == 2

\* /r/d.jsx
FileD == <<RootSeg, Seg("r"), <<"d", "jsx">>>>

\* twelve distinct names, exported by one file in this order
WideNames == <<"c01", "c02", "c03", "c04", "c05", "c06",
               "c07", "c08", "c09", "c10", "c11", "c12">>
WideText == [i \in 1..Len(WideNames) |-> ExportStmt(WideNames[i])]

\* the records analyzeFile returns for the listed files
RecordsOf(fl) == [keys |-> fl, val |-> [i \in 1..Len(fl) |-> analyzeFile(fl[i]).value]]

InitComponents ==
    /\ fsys = Dirs \cup {FileA, FileB, FileC, FileD, FileX}
    /\ readable = {FileA, FileB, FileC, FileD, FileX}
    /\ \/ /\ files = <<FileA, FileB, FileX, FileD, FileC>>
          /\ \E t \in [{FileA, FileB, FileX, FileD} ->
                          SeqUpTo({ExportStmt("foo"), ExportStmt("bar")}, MaxExports)] :
                text = [f \in {FileA, FileB, FileC, FileD, FileX} |->
                          IF f = FileC THEN GenericText ELSE t[f]]
       \/ /\ files = <<FileA, FileB>>
          /\ \E tb \in SeqUpTo({ExportStmt("c03"), ExportStmt("c11"), ExportStmt("c12")},
                               MaxExports) :
                text = [f \in {FileA, FileB, FileC, FileD, FileX} |->
                          IF f = FileA THEN WideText
                          ELSE IF f = FileB THEN tb ELSE GenericText]
    /\ analyses = RecordsOf(files)
    /\ pc = "components"
    /\ idx = 1
    /\ graph = EmptyMap
    /\ warned = {}
    /\ rFrom = <<>>
    /\ rImport = <<>>
    /\ rOut = NoCall
    /\ calls = <<>>
    /\ visited = {}
    /\ flows = <<>>
    /\ chains = <<>>
    /\ stack = <<>>
    /\ flowsOut = <<>>
    /\ components = NotRun
    /\ keyDeps = KeyDepsNotRun
    /\ RunNotStarted
    /\ ScanNotRun

NextComponents == IdentifyMainComponents

SpecComponents == InitComponents /\ [][NextComponents]_vars

---------------------------------------------------------------------------
(* MarkdownGenerator.analyzeDataFlows and findLongestDependencyChain.      *)
(* The recursion is run on an explicit stack of activation records, one    *)
(* step per call or return.                                                *)

\* a visited check that never finds the node
VisitedHas_Never(v, file) == FALSE

\* visited.has(file)
VisitedHas(v, file) == file \in v

\* graph.get(file)?.dependencies || []
DepsOf(g, file) == IF MapHas(g, file) THEN MapGet(g, file).dependencies ELSE <<>>

\* graph.get(file).dependencies: a TypeError when the graph has no such node
ReadDeps_NoOptionalChaining(g, file) ==
    IF MapHas(g, file) THEN Return(MapGet(g, file).dependencies) ELSE Throw("TypeError")

\* const deps = graph.get(file)?.dependencies || [], as the first statement
\* of the try block
ReadDeps(g, file) == Return(DepsOf(g, file))

\* the activation of findLongestDependencyChain(file, graph, visitedIn) past
\* its visited check: visited.add(file), deps, longestChain = [file]; when
\* the try block throws, the catch block returns [file]
NewFrame(g, file, visitedIn) ==
    LET r == ReadDeps(g, file) IN
    [file |-> file,
     visited |-> visitedIn \cup {file},
     deps |-> IF r.threw THEN <<>> ELSE r.value,
     i |-> 1,
     longestChain |-> <<file>>,
     failed |-> r.threw]

\* a comparison that lets a chain of equal length replace the current best
Longer_OrEqual(longestChain, file, chain) ==
    IF Len(chain) + 1 >= Len(longestChain) THEN <<file>> \o chain ELSE longestChain

\* if (chain.length + 1 > longestChain.length) longestChain = [file, ...chain]
Longer(longestChain, file, chain) ==
    IF Len(chain) + 1 > Len(longestChain) THEN <<file>> \o chain ELSE longestChain

\* chain.map(f => path.basename(f)).join(' -> '): the basenames in order
FlowString(chain) == [i \in 1..Len(chain) |-> Basename(chain[i])]

\* a marking of the chain's dependencies but not of its root
MarkVisited_Tail(v, chain) == v \cup Range(Tail(chain))

\* a marking of the chain's root alone
MarkVisited_RootOnly(v, chain) == v \cup {chain[1]}

\* chain.forEach(f => visited.add(f))
MarkVisited(v, chain) == v \cup Range(chain)

\* flows.slice(0, 5)
TopFlows(fl) == SubSeq(fl, 1, IF Len(fl) < 5 THEN Len(fl) ELSE 5)

Top == stack[Len(stack)]

\* one iteration head of `for (const [file, deps] of dependencyGraph.entries())`:
\* a visited root is skipped, any other root is searched from
FlowRoot ==
    /\ pc = "flowLoop"
    /\ idx <= Len(graph.keys)
    /\ LET file == graph.keys[idx] IN
       IF VisitedHas(visited, file)
       THEN /\ idx' = idx + 1
            /\ UNCHANGED <<pc, stack>>
       ELSE /\ stack' = <<NewFrame(graph, file, {})>>
            /\ pc' = "dfs"
            /\ UNCHANGED idx
    /\ UNCHANGED <<runVars, scanVars, inputVars, archVars, analyses, graph, warned, resolveVars,
                   visited, flows, chains, flowsOut>>

\* the call for the next dependency, taken off the node's own list with
\* dependencies.shift()
DfsCall_ShiftDeps ==
    /\ pc = "dfs"
    /\ Top.i <= Len(Top.deps)
    /\ LET dep == Top.deps[Top.i] IN
       IF VisitedHas(Top.visited, dep)
       THEN stack' = [stack EXCEPT ![Len(stack)] =
                        [@ EXCEPT !.longestChain = Longer(@, Top.file, <<>>),
                                  !.i = @ + 1]]
       ELSE stack' = Append(stack, NewFrame(graph, dep, Top.visited))
    /\ graph' = IF MapHas(graph, Top.file) /\ MapGet(graph, Top.file).dependencies # <<>>
                THEN MapSet(graph, Top.file,
                            [MapGet(graph, Top.file) EXCEPT !.dependencies = Tail(@)])
                ELSE graph
    /\ UNCHANGED <<runVars, scanVars, inputVars, archVars, pc, idx, analyses, warned, resolveVars,
                   visited, flows, chains, flowsOut>>

\* the recursive call for the next dependency of the top activation: on a
\* node of the current path it returns [] at once, otherwise it is entered
DfsCall ==
    /\ pc = "dfs"
    /\ Top.i <= Len(Top.deps)
    /\ LET dep == Top.deps[Top.i] IN
       IF VisitedHas(Top.visited, dep)
       THEN stack' = [stack EXCEPT ![Len(stack)] =
                        [@ EXCEPT !.longestChain = Longer(@, Top.file, <<>>),
                                  !.i = @ + 1]]
       ELSE stack' = Append(stack, NewFrame(graph, dep, Top.visited))
    /\ UNCHANGED <<runVars, scanVars, inputVars, archVars, pc, idx, analyses, graph, warned, resolveVars,
                   visited, flows, chains, flowsOut>>

\* a return after a search that shared one visited set between the
\* activations: what the callee visited stays visited for the caller
DfsReturn_SharedVisited ==
    /\ pc = "dfs"
    /\ Top.i > Len(Top.deps)
    /\ Len(stack) > 1
    /\ LET caller == stack[Len(stack) - 1] IN
       stack' = Append(SubSeq(stack, 1, Len(stack) - 2),
                       [caller EXCEPT
                          !.longestChain = Longer(@, caller.file, Top.longestChain),
                          !.visited = @ \cup Top.visited,
                          !.i = @ + 1])
    /\ UNCHANGED <<runVars, scanVars, inputVars, archVars, pc, idx, analyses, graph, warned, resolveVars,
                   visited, flows, chains, flowsOut>>

\* the top activation has been through its dependencies and returns its
\* longestChain to the activation that called it
DfsReturn ==
    /\ pc = "dfs"
    /\ Top.i > Len(Top.deps)
    /\ Len(stack) > 1
    /\ LET caller == stack[Len(stack) - 1] IN
       stack' = Append(SubSeq(stack, 1, Len(stack) - 2),
                       [caller EXCEPT
                          !.longestChain = Longer(@, caller.file, Top.longestChain),
                          !.i = @ + 1])
    /\ UNCHANGED <<runVars, scanVars, inputVars, archVars, pc, idx, analyses, graph, warned, resolveVars,
                   visited, flows, chains, flowsOut>>

\* the root activation returns to analyzeDataFlows: the chain is pushed as
\* a flow whatever its length
FlowRecord_PushAll ==
    /\ pc = "dfs"
    /\ Top.i > Len(Top.deps)
    /\ Len(stack) = 1
    /\ LET chain == Top.longestChain IN
       /\ flows' = Append(flows, FlowString(chain))
       /\ visited' = MarkVisited(visited, chain)
       /\ chains' = Append(chains, chain)
    /\ stack' = <<>>
    /\ idx' = idx + 1
    /\ pc' = "flowLoop"
    /\ UNCHANGED <<runVars, scanVars, inputVars, archVars, analyses, graph, warned, resolveVars, flowsOut>>

\* the root activation returns to analyzeDataFlows: the chain is pushed as
\* a flow when it has more than one node, and its nodes are marked visited
FlowRecord ==
    /\ pc = "dfs"
    /\ Top.i > Len(Top.deps)
    /\ Len(stack) = 1
    /\ LET chain == Top.longestChain IN
       /\ flows' = IF Len(chain) > 1 THEN Append(flows, FlowString(chain)) ELSE flows
       /\ visited' = MarkVisited(visited, chain)
       /\ chains' = Append(chains, chain)
    /\ stack' = <<>>
    /\ idx' = idx + 1
    /\ pc' = "flowLoop"
    /\ UNCHANGED <<runVars, scanVars, inputVars, archVars, analyses, graph, warned, resolveVars, flowsOut>>

\* return flows.slice(0, 5)
FlowsReturn ==
    /\ pc = "flowLoop"
    /\ idx > Len(graph.keys)
    /\ flowsOut' = TopFlows(flows)
    /\ pc' = "flowsDone"
    /\ UNCHANGED <<runVars, scanVars, inputVars, archVars, idx, analyses, graph, warned, resolveVars,
                   visited, flows, chains, stack>>

\* the NodeIds of the graphs analyzeDataFlows is run on
FlowNodes == {FileA, FileB, FileC}

\* key orders: up to the naming of the nodes, every order of up to three keys
KeyOrders == {<<>>, <<FileA>>, <<FileA, FileB>>, <<FileB, FileA>>,
              <<FileA, FileB, FileC>>}

RECURSIVE FillInbound(_, _)
\* the reverse-dependency pushes of buildDependencyGraph, from key i on
FillInbound(g, i) ==
    IF i > Len(g.keys) THEN g
    ELSE FillInbound(ReverseDeps(g, g.val[i].dependencies, 1, g.keys[i]), i + 1)

\* the graph buildDependencyGraph returns for these keys and resolved lists
GraphOf(keys, deps) ==
    FillInbound([keys |-> keys,
                 val |-> [i \in 1..Len(keys) |->
                            [dependencies |-> deps[keys[i]],
                             dependedOnBy |-> <<>>]]], 1)

InitFlows ==
    /\ fsys = Dirs
    /\ readable = {}
    /\ text = [f \in FileUniverse |-> <<>>]
    /\ files = <<>>
    /\ analyses = EmptyMap
    /\ warned = {}
    /\ rFrom = <<>>
    /\ rImport = <<>>
    /\ rOut = NoCall
    /\ calls = <<>>
    /\ \E keys \in KeyOrders :
         \E deps \in [Range(keys) -> SeqUpTo(FlowNodes, MaxDeps)] :
            graph = GraphOf(keys, deps)
    /\ pc = "flowLoop"
    /\ idx = 1
    /\ visited = {}
    /\ flows = <<>>
    /\ chains = <<>>
    /\ stack = <<>>
    /\ flowsOut = <<>>
    /\ components = NotRun
    /\ keyDeps = KeyDepsNotRun
    /\ RunNotStarted
    /\ ScanNotRun

NextFlows == FlowRoot \/ DfsCall \/ DfsReturn \/ FlowRecord \/ FlowsReturn

SpecFlows == InitFlows /\ [][NextFlows]_vars

\* the event loop runs every continuation that is ready
FairSpecFlows == SpecFlows /\ WF_vars(NextFlows)

\* analyzeDataFlows followed by analyzeKeyDependencies, as in
\* addArchitectureSection
NextArchitecture == NextFlows \/ KeyDependencies

SpecArchitecture == InitFlows /\ [][NextArchitecture]_vars

---------------------------------------------------------------------------
(* analyzeDataFlows on graphs with more roots than flows are returned *)

\* the roots of the wide graphs
MaxRoots == 6

\* /r/w1.js, /r/w2.js, ...: the roots; /r/mid.js, a node that imports
\* /r/hub.js; /r/hub.js, a NodeId without a node
W(i) == <<RootSeg, Seg("r"), <<"w" \o ToString(i), "js">>>>
Mid == <<RootSeg, Seg("r"), <<"mid", "js">>>>
Hub == <<RootSeg, Seg("r"), <<"hub", "js">>>>

WideKeys == [i \in 1..MaxRoots |-> W(i)] \o <<Mid>>

InitFlowsWide ==
    /\ fsys = Dirs
    /\ readable = {}
    /\ text = [f \in FileUniverse |-> <<>>]
    /\ files = <<>>
    /\ analyses = EmptyMap
    /\ warned = {}
    /\ rFrom = <<>>
    /\ rImport = <<>>
    /\ rOut = NoCall
    /\ calls = <<>>
    /\ \E deps \in [Range(WideKeys) -> {<<>>, <<Hub>>, <<Mid>>}] :
          /\ deps[Mid] = <<Hub>>
          /\ graph = GraphOf(WideKeys, deps)
    /\ pc = "flowLoop"
    /\ idx = 1
    /\ visited = {}
    /\ flows = <<>>
    /\ chains = <<>>
    /\ stack = <<>>
    /\ flowsOut = <<>>
    /\ components = NotRun
    /\ keyDeps = KeyDepsNotRun
    /\ RunNotStarted
    /\ ScanNotRun

NextFlowsWide == NextFlows

SpecFlowsWide == InitFlowsWide /\ [][NextFlowsWide]_vars

---------------------------------------------------------------------------
(* analyzeKeyDependencies called on its own, on graphs with more targets   *)
(* than lines are returned                                                 *)

\* the NodeIds a wide outbound list may name
MaxTargets == 7

\* w1.js imports w1.js .. wn.js in that order; w2.js imports up to MaxDeps
\* of w1.js, w6.js, w7.js
InitKeyDeps ==
    /\ fsys = Dirs
    /\ readable = {}
    /\ text = [f \in FileUniverse |-> <<>>]
    /\ files = <<>>
    /\ analyses = EmptyMap
    /\ warned = {}
    /\ rFrom = <<>>
    /\ rImport = <<>>
    /\ rOut = NoCall
    /\ calls = <<>>
    /\ \E n \in 0..MaxTargets :
         \E d2 \in SeqUpTo({W(1), W(6), W(7)}, MaxDeps) :
            graph = GraphOf(<<W(1), W(2)>>,
                            [k \in {W(1), W(2)} |->
                               IF k = W(1) THEN [i \in 1..n |-> W(i)] ELSE d2])
    /\ pc = "flowsDone"
    /\ idx = 1
    /\ visited = {}
    /\ flows = <<>>
    /\ chains = <<>>
    /\ stack = <<>>
    /\ flowsOut = <<>>
    /\ components = NotRun
    /\ keyDeps = KeyDepsNotRun
    /\ RunNotStarted
    /\ ScanNotRun

NextKeyDeps == KeyDependencies

SpecKeyDeps == InitKeyDeps /\ [][NextKeyDeps]_vars

---------------------------------------------------------------------------
(* One whole run: the analysis loop, buildDependencyGraph, then            *)
(* generator.generateMarkdown with the analytics of addArchitectureSection *)

\* './lib/b' (a.js to b.ts), '../a' (b.ts to a.js), './a' (a.js to itself),
\* 'react', and an export
PipelineStmts == {ImportStmt(ImpLibB, "x"), ImportStmt(ImpUpA, "x"),
                  ImportStmt(ImpDotA, "x"), ImportStmt(ImpReact, "x"),
                  ExportStmt("foo")}

\* the file lists of the runs
PipelineLists == {<<FileA, FileB, FileC>>, <<FileB, FileA>>, <<FileC, FileB>>}

PipelineTexts(f, n) ==
    IF f \in Range(files) THEN SeqUpTo(PipelineStmts, n) ELSE {<<>>}

InitPipeline ==
    /\ fsys = Dirs \cup FileUniverse
    /\ readable = FileUniverse
    /\ files \in PipelineLists
    /\ \E ta \in PipelineTexts(FileA, MaxStmts) :
         \E tb \in PipelineTexts(FileB, MaxStmts - Len(ta)) :
            text = [f \in FileUniverse |->
                      IF f = FileA THEN ta ELSE IF f = FileB THEN tb ELSE GenericText]
    /\ pc = "analyze"
    /\ idx = 1
    /\ analyses = EmptyMap
    /\ graph = EmptyMap
    /\ warned = {}
    /\ rFrom = <<>>
    /\ rImport = <<>>
    /\ rOut = NoCall
    /\ calls = <<>>
    /\ visited = {}
    /\ flows = <<>>
    /\ chains = <<>>
    /\ stack = <<>>
    /\ flowsOut = <<>>
    /\ components = NotRun
    /\ keyDeps = KeyDepsNotRun
    /\ RunNotStarted
    /\ ScanNotRun

\* generator.generateMarkdown(files, analyses, dependencyGraph) is called and
\* reaches addArchitectureSection
GenerateMarkdown ==
    /\ pc = "built"
    /\ pc' = "components"
    /\ UNCHANGED <<runVars, scanVars, inputVars, archVars, idx, analyses, graph, warned, resolveVars,
                   flowVars>>

NextPipeline ==
    \/ AnalyzeFileStep \/ BuildFirstPass \/ BuildSecondPassStep \/ BuildReturn
    \/ GenerateMarkdown \/ IdentifyMainComponents
    \/ FlowRoot \/ DfsCall \/ DfsReturn \/ FlowRecord \/ FlowsReturn
    \/ KeyDependencies

SpecPipeline == InitPipeline /\ [][NextPipeline]_vars

\* every await of the search settles: a search that can take a step does
FairSpecPipeline == SpecPipeline /\ WF_vars(NextFlows)

---------------------------------------------------------------------------
(* executeCodeAnalysis (index.js), one action for each stretch of the      *)
(* function up to an awaited operation that can fail                       *)

\* the calls of executeCodeAnalysis
MaxRuns == 2

\* the catch block: the error is logged and held until the finally block
\* has run
Caught(p, e) ==
    /\ progress' = error(p, <<"Analysis failed">>)
    /\ pending' = e
    /\ step' = "cleanup"

\* progress.start, then the two fs.mkdir calls
CreateDirectories ==
    /\ step \in {"idle", "done"}
    /\ runs < MaxRuns
    /\ runs' = runs + 1
    /\ rmCalls' = 0
    /\ result' = Return("none")
    /\ LET p == addSubtask(start(progress, "Repository Analysis"),
                           "Creating directories")
       IN  \E ok \in BOOLEAN :
              IF ok
              THEN /\ progress' = completeSubtask(p, "Creating directories")
                   /\ pending' = "none"
                   /\ step' = "clone"
              ELSE Caught(p, "mkdir")
    /\ UNCHANGED <<scanVars, inputVars, archVars, pc, idx, analyses, graph,
                   warned, resolveVars, flowVars>>

\* git.clone
CloneRepository ==
    /\ step = "clone"
    /\ LET p == addSubtask(progress, "Cloning repository")
       IN  \E ok \in BOOLEAN :
              IF ok
              THEN /\ progress' = completeSubtask(p, "Cloning repository")
                   /\ step' = "version"
                   /\ UNCHANGED pending
              ELSE Caught(p, "clone")
    /\ UNCHANGED <<rmCalls, result, runs, scanVars, inputVars, archVars, pc,
                   idx, analyses, graph, warned, resolveVars, flowVars>>

\* the version lookup, whose failure is caught and warned about, and the
\* fs.mkdir of the versioned output directory; the subtask is completed
\* inside the inner try, after the lookup
GetVersion_CompleteInsideTry ==
    /\ step = "version"
    /\ \E found \in BOOLEAN, ok \in BOOLEAN :
          LET p1 == addSubtask(progress, "Getting version information")
              p2 == IF found
                    THEN completeSubtask(p1, "Getting version information")
                    ELSE warn(p1, <<"Could not determine version, using \"latest\"">>)
          IN  IF ok
              THEN /\ progress' = p2
                   /\ step' = "scan"
                   /\ UNCHANGED pending
              ELSE Caught(p2, "mkdir")
    /\ UNCHANGED <<rmCalls, result, runs, scanVars, inputVars, archVars, pc,
                   idx, analyses, graph, warned, resolveVars, flowVars>>

\* the version lookup, whose failure is caught and warned about, and the
\* fs.mkdir of the versioned output directory
GetVersion ==
    /\ step = "version"
    /\ \E found \in BOOLEAN, ok \in BOOLEAN :
          LET p1 == addSubtask(progress, "Getting version information")
              p2 == IF found THEN p1
                    ELSE warn(p1, <<"Could not determine version, using \"latest\"">>)
              p3 == completeSubtask(p2, "Getting version information")
          IN  IF ok
              THEN /\ progress' = p3
                   /\ step' = "scan"
                   /\ UNCHANGED pending
              ELSE Caught(p3, "mkdir")
    /\ UNCHANGED <<rmCalls, result, runs, scanVars, inputVars, archVars, pc,
                   idx, analyses, graph, warned, resolveVars, flowVars>>

\* scanDirectory(tempPath), which fails when a directory cannot be read
ScanFiles ==
    /\ step = "scan"
    /\ LET p == addSubtask(progress, "Scanning files")
       IN  \E ok \in BOOLEAN :
              IF ok
              THEN /\ progress' = completeSubtask(p, "Scanning files")
                   /\ step' = "generate"
                   /\ UNCHANGED pending
              ELSE Caught(p, "readdir")
    /\ UNCHANGED <<rmCalls, result, runs, scanVars, inputVars, archVars, pc,
                   idx, analyses, graph, warned, resolveVars, flowVars>>

\* generateMarkdownFiles up to generator.generateSections: the analysis
\* loop and buildDependencyGraph catch their errors themselves
GenerateSections ==
    /\ step = "generate"
    /\ LET p1 == addSubtask(progress, "Generating documentation")
           p2 == completeSubtask(addSubtask(p1, "Analyzing files"),
                                 "Analyzing files")
           p3 == completeSubtask(addSubtask(p2, "Building dependency graph"),
                                 "Building dependency graph")
           p4 == addSubtask(p3, "Generating content sections")
       IN  \E ok \in BOOLEAN :
              IF ok
              THEN /\ progress' = completeSubtask(p4, "Generating content sections")
                   /\ step' = "write"
                   /\ UNCHANGED pending
              ELSE Caught(p4, "generateSections")
    /\ UNCHANGED <<rmCalls, result, runs, scanVars, inputVars, archVars, pc,
                   idx, analyses, graph, warned, resolveVars, flowVars>>

\* the rest of generateMarkdownFiles: generator.generateIndex and the
\* fs.writeFile calls; then 'Generating documentation' is completed
WriteDocumentation ==
    /\ step = "write"
    /\ LET p == addSubtask(progress, "Creating documentation files")
       IN  \E ok \in BOOLEAN :
              IF ok
              THEN /\ progress' =
                         completeSubtask(
                            completeSubtask(p, "Creating documentation files"),
                            "Generating documentation")
                   /\ step' = "finish"
                   /\ UNCHANGED pending
              ELSE Caught(p, "writeFile")
    /\ UNCHANGED <<rmCalls, result, runs, scanVars, inputVars, archVars, pc,
                   idx, analyses, graph, warned, resolveVars, flowVars>>

\* progress.finish(), the last statement of the try block that can log
Finish ==
    /\ step = "finish"
    /\ progress' = finish(progress)
    /\ step' = "cleanup"
    /\ UNCHANGED <<rmCalls, pending, result, runs, scanVars, inputVars,
                   archVars, pc, idx, analyses, graph, warned, resolveVars,
                   flowVars>>

\* a finally block without a try of its own: a failed fs.rm ends the call
Cleanup_Propagates ==
    /\ step = "cleanup"
    /\ rmCalls' = rmCalls + 1
    /\ LET p == addSubtask(progress, "Cleaning up")
       IN  \E ok \in BOOLEAN :
              IF ok
              THEN /\ progress' = completeSubtask(p, "Cleaning up")
                   /\ result' = IF pending = "none" THEN Return("undefined")
                                ELSE Throw(pending)
              ELSE /\ progress' = p
                   /\ result' = Throw("rm")
    /\ step' = "done"
    /\ UNCHANGED <<pending, runs, scanVars, inputVars, archVars, pc, idx,
                   analyses, graph, warned, resolveVars, flowVars>>

\* the finally block: fs.rm of the temp directory, a failure of which is
\* caught and warned about; then the call returns, or throws the error the
\* catch block rethrew
Cleanup ==
    /\ step = "cleanup"
    /\ rmCalls' = rmCalls + 1
    /\ LET p == addSubtask(progress, "Cleaning up")
       IN  \E ok \in BOOLEAN :
              progress' = IF ok THEN completeSubtask(p, "Cleaning up")
                          ELSE warn(p, <<"Cleanup failed">>)
    /\ result' = IF pending = "none" THEN Return("undefined") ELSE Throw(pending)
    /\ step' = "done"
    /\ UNCHANGED <<pending, runs, scanVars, inputVars, archVars, pc, idx,
                   analyses, graph, warned, resolveVars, flowVars>>

InitRun ==
    /\ fsys = Dirs \cup FileUniverse
    /\ readable = FileUniverse
    /\ text = [f \in FileUniverse |-> <<>>]
    /\ files = <<>>
    /\ pc = "idle"
    /\ idx = 1
    /\ analyses = EmptyMap
    /\ graph = EmptyMap
    /\ warned = {}
    /\ rFrom = <<>>
    /\ rImport = <<>>
    /\ rOut = NoCall
    /\ calls = <<>>
    /\ visited = {}
    /\ flows = <<>>
    /\ chains = <<>>
    /\ stack = <<>>
    /\ flowsOut = <<>>
    /\ components = NotRun
    /\ keyDeps = KeyDepsNotRun
    /\ RunNotStarted
    /\ ScanNotRun

NextRun ==
    \/ CreateDirectories
    \/ CloneRepository
    \/ GetVersion
    \/ ScanFiles
    \/ GenerateSections
    \/ WriteDocumentation
    \/ Finish
    \/ Cleanup

SpecRun == InitRun /\ [][NextRun]_vars

\* every awaited operation settles
FairSpecRun == SpecRun /\ WF_vars(NextRun)

---------------------------------------------------------------------------
(* scanDirectory (index.js).  A name or a pattern is the sequence of its   *)
(* pieces: the wildcards "**/" and "*", the dot ".", and the stretches of  *)
(* other characters, cut so that 'lock' is always a piece of its own.      *)

\* config.excludePatterns
excludePatterns ==
    << <<"node_modules">>, <<"dist">>, <<"build">>, <<"coverage">>, <<".", "git">>,
       <<"*", ".", "min", ".", "js">>, <<"*", ".", "bundle", ".", "js">>,
       <<"*", ".", "test", ".", "js">>, <<"*", ".", "spec", ".", "js">>,
       <<"**/", "package-", "lock", ".", "json">>, <<"**/", "yarn", ".", "lock">>,
       <<"**/", "pnpm-", "lock", ".", "yaml">>, <<"**/", "bun", ".", "lock", "b">>,
       <<"**/", "Cargo", ".", "lock">>, <<"**/", "Gemfile", ".", "lock">>,
       <<"**/", "composer", ".", "lock">>, <<"**/", "poetry", ".", "lock">>,
       <<"**/", "mix", ".", "lock">>, <<"**/", "paket", ".", "lock">>,
       <<"**/", "packages", ".", "lock", ".", "json">>,
       <<"**/", "shrinkwrap", ".", "yaml">>, <<"**/", "flake", ".", "lock">>,
       <<"**/", "pnpm-workspace", ".", "yaml">> >>

\* config.textFileExtensions
textFileExtensions ==
    << <<".", "js">>, <<".", "jsx">>, <<".", "ts">>, <<".", "tsx">>, <<".", "md">>,
       <<".", "txt">>, <<".", "json">>, <<".", "yml">>, <<".", "yaml">>,
       <<".", "css">>, <<".", "scss">>, <<".", "html">>, <<".", "vue">>,
       <<".", "py">>, <<".", "rb">>, <<".", "php">>, <<".", "java">>,
       <<".", "go">>, <<".", "rs">>, <<".", "sh">> >>

\* the pieces that are a single character
Chars == {".", "/", "a", "b", "c"}

\* the items of a regular expression
Lit(piece) == [op |-> "lit", piece |-> piece]
AnyChar == [op |-> "any", piece |-> ""]
NoSlashes == [op |-> "noSlashes", piece |-> ""]
OptionalDirs == [op |-> "optionalDirs", piece |-> ""]

\* .replace(/\./g, '\\.').replace(/\*/g, '[^/]*')
Escaped(pattern) ==
    [i \in 1..Len(pattern) |->
        IF pattern[i] = "*" THEN NoSlashes ELSE Lit(pattern[i])]

\* a pattern put into a RegExp as it is: its dots match any character
Unescaped(pattern) ==
    [i \in 1..Len(pattern) |->
        IF pattern[i] = "." THEN AnyChar ELSE Lit(pattern[i])]

\* the RegExp between ^ and $
globToRegExp(pattern) ==
    IF pattern # <<>> /\ Head(pattern) = "**/"
    THEN <<OptionalDirs>> \o Escaped(Tail(pattern))
    ELSE IF "*" \in Range(pattern)
         THEN Escaped(pattern)
         ELSE Unescaped(pattern)

RECURSIVE Test(_, _)
\* regex.test(path) for a RegExp anchored at both ends
Test(regex, path) ==
    IF regex = <<>> THEN path = <<>>
    ELSE LET item == Head(regex)
             from(k) == SubSeq(path, k, Len(path))
         IN  CASE item.op = "lit" ->
                    path # <<>> /\ Head(path) = item.piece /\ Test(Tail(regex), Tail(path))
               [] item.op = "any" ->
                    path # <<>> /\ Head(path) \in Chars /\ Test(Tail(regex), Tail(path))
               [] item.op = "noSlashes" ->
                    \E k \in 1..(Len(path) + 1) :
                       /\ \A j \in 1..(k - 1) : path[j] # "/"
                       /\ Test(Tail(regex), from(k))
               [] item.op = "optionalDirs" ->
                    \/ Test(Tail(regex), path)
                    \/ \E k \in 1..Len(path) :
                          path[k] = "/" /\ Test(Tail(regex), from(k + 1))

matchesGlobPattern(path, pattern) == Test(globToRegExp(pattern), path)

\* s.includes('lock') || s.includes('package-lock')
IncludesLock(s) ==
    \/ "lock" \in Range(s)
    \/ \E i \in 1..(Len(s) - 1) : s[i] = "package-" /\ s[i + 1] = "lock"

\* file.name.toLowerCase().endsWith(ext)
EndsWith(name, ext) ==
    /\ Len(name) >= Len(ext)
    /\ [i \in 1..Len(ext) |-> Lower(name[Len(name) - Len(ext) + i])] = ext

\* some pattern of the list matches the name; relative(dir, join(dir, name))
\* is the name again
SomeMatch(name, patterns) ==
    \E i \in 1..Len(patterns) :
       matchesGlobPattern(name, patterns[i]) \/ matchesGlobPattern(name, patterns[i])

\* the value of shouldExclude at the end of one iteration of the loop
shouldExclude(name) ==
    LET isLockFile == IncludesLock(name)
        lockPatterns == SelectSeq(excludePatterns, IncludesLock)
        otherPatterns == SelectSeq(excludePatterns, LAMBDA p : ~IncludesLock(p))
        first == isLockFile /\ SomeMatch(name, lockPatterns)
    IN  IF ~first /\ ~isLockFile THEN SomeMatch(name, otherPatterns) ELSE first

\* a directory entry: a file, or a directory with its own entries
File(name) == [name |-> name, isDirectory |-> FALSE, children |-> <<>>]
Dir(name, children) == [name |-> name, isDirectory |-> TRUE, children |-> children]

RECURSIVE scanDirectory(_, _)
\* the paths pushed for the entries of dir, in readdir order
scanDirectory(dir, entries) ==
    IF entries = <<>> THEN <<>>
    ELSE LET file == Head(entries)
             fullPath == Append(dir, file.name)
             pushed ==
                IF file.isDirectory
                THEN IF ~shouldExclude(file.name)
                     THEN scanDirectory(fullPath, file.children)
                     ELSE <<>>
                ELSE IF /\ ~shouldExclude(file.name)
                        /\ \E i \in 1..Len(textFileExtensions) :
                              EndsWith(file.name, textFileExtensions[i])
                     THEN <<fullPath>>
                     ELSE <<>>
         IN  pushed \o scanDirectory(dir, Tail(entries))

\* the entries of one directory
MaxEntries == 3

\* tempPath
TempPath == << <<"temp">>, <<"repo">> >>

FileNames ==
    {<<"a", ".", "js">>, <<"b", ".", "JS">>, <<"a", ".", "test", ".", "js">>,
     <<"c", "lock", ".", "test", ".", "js">>, <<"un", "lock", ".", "min", ".", "js">>,
     <<"package-", "lock", ".", "json">>, <<"yarn", ".", "lock">>,
     <<"lock", ".", "json">>, <<"logo", ".", "png">>}

\* the listings of a subdirectory
SubListings ==
    {<<>>,
     <<File(<<"a", ".", "js">>)>>,
     <<File(<<"c", "lock", ".", "test", ".", "js">>), File(<<"a", ".", "spec", ".", "js">>)>>,
     <<File(<<"package-", "lock", ".", "json">>), File(<<"a", ".", "js">>)>>}

Entries0 ==
    {File(n) : n \in FileNames}
    \cup {Dir(<<"src">>, l) : l \in SubListings}
    \cup {Dir(<<"node_modules">>, <<File(<<"a", ".", "js">>)>>),
          Dir(<<".", "git">>, <<File(<<"a", ".", "js">>)>>),
          Dir(<<"b", "lock", "s">>, <<File(<<"a", ".", "js">>)>>)}

\* a listing names no entry twice
Listings ==
    {l \in SeqUpTo(Entries0, MaxEntries) :
        \A i, j \in 1..Len(l) : l[i].name = l[j].name => i = j}

InitScan ==
    /\ fsys = Dirs \cup FileUniverse
    /\ readable = FileUniverse
    /\ text = [f \in FileUniverse |-> <<>>]
    /\ files = <<>>
    /\ pc = "scan"
    /\ idx = 1
    /\ analyses = EmptyMap
    /\ graph = EmptyMap
    /\ warned = {}
    /\ rFrom = <<>>
    /\ rImport = <<>>
    /\ rOut = NoCall
    /\ calls = <<>>
    /\ visited = {}
    /\ flows = <<>>
    /\ chains = <<>>
    /\ stack = <<>>
    /\ flowsOut = <<>>
    /\ components = NotRun
    /\ keyDeps = KeyDepsNotRun
    /\ RunNotStarted
    /\ tree \in Listings
    /\ results = <<>>

\* const files = await scanDirectory(tempPath)
ScanDirectory ==
    /\ pc = "scan"
    /\ results' = scanDirectory(TempPath, tree)
    /\ pc' = "scanned"
    /\ UNCHANGED <<runVars, tree, inputVars, archVars, idx, analyses, graph,
                   warned, resolveVars, flowVars>>

NextScan == ScanDirectory

SpecScan == InitScan /\ [][NextScan]_vars

---------------------------------------------------------------------------
(* Properties of buildDependencyGraph (specification Spec) *)

Built == pc = "built"

Node(k) == MapGet(graph, k)

Keys(m) == Range(m.keys)

C3_InboundExact ==
    Built => \A b \in Keys(graph) :
                \A a \in Range(Node(b).dependedOnBy) :
                   /\ MapHas(graph, a)
                   /\ b \in Range(Node(a).dependencies)

\* a node with inbound entries from another file and from itself
C3_Witness ==
    /\ Built
    /\ MapHas(graph, FileA)
    /\ FileA \in Range(Node(FileA).dependedOnBy)
    /\ FileB \in Range(Node(FileA).dependedOnBy)

\* C4 as stated: after buildDependencyGraph returns, no node's outbound list
\* holds the same NodeId twice.
C4_OutboundDeduplicated ==
    Built => \A k \in Keys(graph) : NoDup(Node(k).dependencies)

\* C4 amended: after buildDependencyGraph returns, a node's outbound list
\* has one entry per import statement of the file's record, in statement
\* order, entry i being the resolution of the i-th import source; a NodeId
\* reached by two import statements occurs twice.
C4_OutboundPerImport ==
    Built => \A k \in Keys(graph) :
                LET src == ImportSources(MapGet(analyses, k))
                    out == Node(k).dependencies
                IN  /\ Len(out) = Len(src)
                    /\ \A i \in 1..Len(src) :
                          out[i] = resolveDependencyPath(k, src[i])

\* two different specifiers of one file resolved to the same NodeId
C4_Witness ==
    /\ Built
    /\ \E k \in Keys(graph) :
          LET src == ImportSources(MapGet(analyses, k))
              out == Node(k).dependencies
          IN  \E i, j \in 1..Len(out) :
                 i # j /\ out[i] = out[j] /\ src[i] # src[j]

---------------------------------------------------------------------------
(* Properties of the analysis stage (specification Spec) *)

\* the files the analysis loop has been through
Analysed == IF pc = "analyze" THEN {files[i] : i \in 1..(idx - 1)} ELSE Range(files)

IsSource(f) == IsExt(f, {"js", "jsx", "ts", "tsx"})

\* C7: analyzeFile returns a record, and never throws, for every path:
\* unreadable, empty, of an unknown extension, or syntactically invalid.
C7_AnalyzeFileTotal ==
    \A f \in FileUniverse \cup {FileX} :
       LET r == analyzeFile(f) IN
       /\ ~r.threw
       /\ "content" \in DOMAIN r.value

\* the loop has been through an unreadable file, a file whose text does not
\* parse and a file of an unknown extension, and holds a record for each
C7_Witness ==
    /\ Len(files) = 3
    /\ Analysed = Range(files)
    /\ FileA \notin readable
    /\ FileB \in readable /\ ~Parses(text[FileB])
    /\ \A f \in FileUniverse : MapHas(analyses, f)
    /\ MapGet(analyses, FileC).type = "generic"

\* C8: no file's failure stops the analysis loop: the loop's catch block
\* never runs, every file the loop has been through has a record, and once
\* the graph is built every input file is a node of it.
C8_RecordPerFile ==
    /\ warned = {}
    /\ \A f \in Analysed : MapHas(analyses, f)
    /\ pc # "analyze" => \A f \in Range(files) : MapHas(graph, f)

\* an unreadable file first, and after it a file whose imports were recorded
\* and a file without an `imports` field, all three nodes of the built graph
C8_Witness ==
    /\ Built
    /\ Len(files) = 3
    /\ files[1] \notin readable
    /\ MapHas(analyses, files[1])
    /\ \E i \in 2..3 : /\ MapHas(analyses, files[i])
                       /\ IsSource(files[i])
                       /\ MapGet(analyses, files[i]).imports # <<>>
    /\ \A f \in Range(files) : MapHas(graph, f)

\* C9: the record of a readable file whose text does not parse for its
\* language has every structural field empty and the file's text as content.
C9_DegradedRecord ==
    \A f \in Analysed :
       (f \in readable /\ IsSource(f) /\ ~Parses(text[f])) =>
          /\ MapHas(analyses, f)
          /\ LET r == MapGet(analyses, f) IN
             /\ r.imports = <<>>
             /\ r.exports = <<>>
             /\ r.content = text[f]
             /\ IF IsExt(f, {"js", "jsx"})
                THEN r.functions = <<>> /\ r.classes = <<>>
                ELSE r.interfaces = <<>> /\ r.types = <<>>

\* a JavaScript file with an import before its syntax error and a TypeScript
\* file with a syntax error have both been analysed
C9_Witness ==
    /\ {FileA, FileB} \subseteq Analysed
    /\ {FileA, FileB} \subseteq readable
    /\ Len(text[FileA]) = 2
    /\ text[FileA][1].k = "import"
    /\ text[FileA][2] = SyntaxError
    /\ ~Parses(text[FileB])
    /\ MapGet(analyses, FileA).content = text[FileA]
    /\ MapGet(analyses, FileB).content = text[FileB]

---------------------------------------------------------------------------
(* Properties of resolveDependencyPath (specification SpecResolve) *)

\* the absolute path of a relative specifier joined against the directory
\* of the importing file, written out for the specifiers of the model
JoinedPath(from, imp) ==
    LET base == IF from = FileA THEN DirR ELSE DirLib IN
    CASE imp = ImpDotA -> Append(base, Seg("a"))
      [] imp = ImpUpA -> IF from = FileA THEN <<RootSeg, Seg("a")>>
                                         ELSE <<RootSeg, Seg("r"), Seg("a")>>
      [] imp = ImpLibB -> base \o <<Seg("lib"), Seg("b")>>
      [] imp = ImpLibBts -> base \o <<Seg("lib"), <<"b", "ts">>>>
      [] imp = ImpDotB -> Append(base, Seg("b"))
      [] imp = ImpHere -> base
      [] imp = ImpUp -> IF from = FileA THEN Root ELSE DirR
      [] imp = ImpUpUpUpA -> <<RootSeg, Seg("a")>>
      [] imp = ImpDotEnv -> Append(base, <<"", "env">>)

\* C10: for a relative specifier resolveDependencyPath returns the joined
\* path if it exists, otherwise the first existing path among the joined
\* path + '.js', '.jsx', '.ts', '.tsx' in that order, otherwise the joined
\* path itself.
C10_ProbeOrder ==
    (pc = "resolved" /\ StartsWithDot(rImport)) =>
       LET p == JoinedPath(rFrom, rImport)
           c == <<p, AppendExt(p, "js"), AppendExt(p, "jsx"),
                  AppendExt(p, "ts"), AppendExt(p, "tsx")>>
           hits == {i \in 1..5 : c[i] \in fsys}
       IN  rOut.id = IF hits = {} THEN p
                     ELSE c[CHOOSE i \in hits : \A j \in hits : i <= j]

\* './lib/b' resolved where /r/lib/b and /r/lib/b.js do not exist and both
\* /r/lib/b.ts and /r/lib/b.tsx do
C10_Witness ==
    /\ pc = "resolved"
    /\ rFrom = FileA
    /\ rImport = ImpLibB
    /\ Cand \notin fsys
    /\ CandJs \notin fsys
    /\ CandTs \in fsys
    /\ CandTsx \in fsys
    /\ rOut.id = CandTs

---------------------------------------------------------------------------
(* Properties of analyzeDataFlows (specifications SpecFlows, FairSpecFlows) *)

\* no node has two activations on the current path
NoNodeReentered ==
    \A i, j \in 1..Len(stack) : stack[i].file = stack[j].file => i = j

\* C5: analyzeDataFlows, and each findLongestDependencyChain call it makes,
\* terminates on every graph, cyclic or not: a node already on the current
\* path is never re-entered, and analyzeDataFlows eventually returns.
C5_CycleSafety == [](NoNodeReentered) /\ <>(pc = "flowsDone")

\* analyzeDataFlows has returned on the fully cyclic graph of three nodes,
\* every node importing both others, with a chain through all three
C5_Witness ==
    /\ pc = "flowsDone"
    /\ Len(graph.keys) = 3
    /\ \A k \in Keys(graph) : Range(Node(k).dependencies) = FlowNodes \ {k}
    /\ Len(chains) = 1
    /\ Len(chains[1]) = 3

\* the graph of exactly the two files a and b with edges a -> b and b -> a
TwoCycle(a, b) ==
    /\ graph.keys = <<a, b>>
    /\ Node(a).dependencies = <<b>>
    /\ Node(b).dependencies = <<a>>

\* C6: on the graph of two files that import each other analyzeDataFlows
\* returns exactly one flow, of length 2, holding both files once each,
\* whichever of the two is iterated first.
C6_MutualImportOneFlow ==
    \A a, b \in {FileA, FileB} :
       (a # b /\ pc = "flowsDone" /\ Len(graph.keys) = 2 /\ TwoCycle(a, b)) =>
          /\ Len(flowsOut) = 1
          /\ Len(flowsOut[1]) = 2
          /\ flowsOut[1] = <<Basename(a), Basename(b)>>
          /\ chains = <<<<a, b>>>>

\* analyzeDataFlows has returned on the two-cycle iterated from /r/lib/b.ts
C6_Witness ==
    /\ pc = "flowsDone"
    /\ Len(graph.keys) = 2
    /\ TwoCycle(FileB, FileA)
    /\ flowsOut = <<<<<<"b", "ts">>, <<"a", "js">>>>>>

---------------------------------------------------------------------------
(* C11 *)

\* C11: a specifier that does not start with '.' is returned unchanged by
\* resolveDependencyPath, no existence probe is made for it, and the result
\* is the same whichever file does the importing.
C11_ExternalPassThrough ==
    (pc = "resolved" /\ ~StartsWithDot(rImport)) =>
        /\ rOut.id = rImport
        /\ rOut.probes = <<>>
        /\ \A from \in {FileA, FileB} :
               ResolveWithProbes(from, rImport) = rOut

\* 'lib/b' imported by /r/a.js while /r/lib/b and /r/lib/b.js exist
C11_Witness ==
    /\ pc = "resolved"
    /\ rFrom = FileA
    /\ rImport = ImpBareLibB
    /\ {Cand, CandJs} \subseteq fsys
    /\ rOut = [id |-> ImpBareLibB, probes |-> <<>>]

---------------------------------------------------------------------------
(* C12 *)

---------------------------------------------------------------------------
(* C13 *)

\* the export entries of record i of the records map
ExportsAt(i) ==
    IF "exports" \in DOMAIN analyses.val[i] THEN analyses.val[i].exports ELSE <<>>

\* every export entry over all records, as <<record index, entry index>>
ExportSites ==
    UNION {{<<i, j>> : j \in 1..Len(ExportsAt(i))} : i \in 1..Len(analyses.keys)}

ExportNames == {ExportsAt(s[1])[s[2]].name : s \in ExportSites}

SitesOf(n) == {s \in ExportSites : ExportsAt(s[1])[s[2]].name = n}

EntryCount(n) == Cardinality(SitesOf(n))

\* site s is met before site t when the records are gone through in order
MetBefore(s, t) == s[1] < t[1] \/ (s[1] = t[1] /\ s[2] < t[2])

FirstSite(n) == CHOOSE s \in SitesOf(n) : \A t \in SitesOf(n) : s = t \/ MetBefore(s, t)

\* name n ranks above name m
RanksAbove(n, m) ==
    \/ EntryCount(n) > EntryCount(m)
    \/ EntryCount(n) = EntryCount(m) /\ MetBefore(FirstSite(n), FirstSite(m))

\* C13: identifyMainComponents reports each name with the number of export
\* entries of that name over all records, lists at most 10 names, each once,
\* by non-increasing count and, at equal counts, in first-met order, and
\* leaves out only names that rank below every listed one.
C13_RankedComponents ==
    pc = "flowLoop" =>
        /\ Len(components) = (IF Cardinality(ExportNames) < 10
                              THEN Cardinality(ExportNames) ELSE 10)
        /\ \A i \in 1..Len(components) :
              /\ components[i].name \in ExportNames
              /\ components[i].score = EntryCount(components[i].name)
        /\ \A i, j \in 1..Len(components) :
              i < j => RanksAbove(components[i].name, components[j].name)
        /\ \A n \in ExportNames :
              (\A i \in 1..Len(components) : components[i].name # n) =>
                 \A i \in 1..Len(components) : RanksAbove(components[i].name, n)

\* three files export foo, a fourth exports bar before any of them is read
\* a second time: foo is first with count 3
C13_Witness ==
    /\ pc = "flowLoop"
    /\ components = <<[name |-> "foo", score |-> 3], [name |-> "bar", score |-> 1]>>
    /\ Len(analyses.keys) = 5
    /\ analyses.val[1].exports = <<ExportEntry(ExportStmt("bar"))>>
    /\ \A i \in 2..4 : analyses.val[i].exports = <<ExportEntry(ExportStmt("foo"))>>

---------------------------------------------------------------------------
(* Properties of a whole run (specification SpecPipeline) *)

\* the positions inside identifyMainComponents, analyzeDataFlows,
\* findLongestDependencyChain and analyzeKeyDependencies
AnalyticsPcs == {"components", "flowLoop", "dfs", "flowsDone"}

\* a step taken inside the analytics leaves the graph and the records alone
ReadOnlyStep ==
    (pc \in AnalyticsPcs) => (graph' = graph /\ analyses' = analyses)

\* C14: no step of identifyMainComponents, analyzeDataFlows,
\* findLongestDependencyChain or analyzeKeyDependencies changes the
\* dependency graph (keys, outbound and inbound lists) or the records map.
C14_AnalyticsReadOnly == [][ReadOnlyStep]_vars

\* all four analytics have run on a graph with a cycle a.js <-> b.ts and an
\* export, and the graph is the one buildDependencyGraph returned
C14_Witness ==
    /\ pc = "architectureDone"
    /\ files = <<FileA, FileB, FileC>>
    /\ MapGet(graph, FileA).dependencies = <<FileB>>
    /\ MapGet(graph, FileB).dependencies = <<FileA>>
    /\ MapGet(graph, FileA).dependedOnBy = <<FileB>>
    /\ MapGet(analyses, FileA).exports # <<>>
    /\ components = <<[name |-> "foo", score |-> 1]>>
    /\ flowsOut = <<<<<<"a", "js">>, <<"b", "ts">>>>>>
    /\ keyDeps.lines = <<[dep |-> FileB, count |-> 1], [dep |-> FileA, count |-> 1]>>

\* the graph buildDependencyGraph returns for the records map
BuiltGraphOf(an) ==
    GraphOf(an.keys,
            [f \in Range(an.keys) |-> ResolveAll(f, ImportSources(MapGet(an, f)))])

\* C15: when buildDependencyGraph starts every input file has its record,
\* and when the analytics of the rendering read the graph every node has its
\* outbound list resolved and its inbound list filled.
C15_PipelineOrdering ==
    /\ pc # "analyze" => analyses.keys = files
    /\ pc \in AnalyticsPcs \cup {"built", "architectureDone"} =>
          graph = BuiltGraphOf(analyses)

\* the analytics are reading a graph of three nodes whose second node was
\* resolved and whose inbound lists were filled after the first pass
C15_Witness ==
    /\ pc = "dfs"
    /\ files = <<FileA, FileB, FileC>>
    /\ graph.keys = files
    /\ MapGet(graph, FileB).dependencies = <<FileA, ImpReact>>
    /\ MapGet(graph, FileA).dependedOnBy = <<FileB>>

---------------------------------------------------------------------------
(* C16 *)

\* the NodeIds named in outbound lists that are no key of the graph
MissingNodes ==
    {n \in UNION {Range(graph.val[i].dependencies) : i \in 1..Len(graph.keys)} :
        ~MapHas(graph, n)}

\* C16: on a graph whose outbound lists name NodeIds without a node, no
\* activation of findLongestDependencyChain ends in its catch block, such a
\* NodeId is searched as a node without dependencies and so ends every
\* chain it is on, and analyzeKeyDependencies returns its lines rather
\* than its fallback text.
C16_MissingNodesTolerated ==
    /\ \A i \in 1..Len(stack) :
          /\ ~stack[i].failed
          /\ stack[i].file \in MissingNodes => stack[i].deps = <<>>
    /\ \A c \in 1..Len(chains) : \A k \in 1..Len(chains[c]) :
          chains[c][k] \in MissingNodes => k = Len(chains[c])
    /\ pc = "architectureDone" => ~keyDeps.fallback

\* a.js is the only node and imports two NodeIds that have none
C16_Witness ==
    /\ pc = "architectureDone"
    /\ graph.keys = <<FileA>>
    /\ MissingNodes = {FileB, FileC}
    /\ chains = <<<<FileA, FileB>>>>
    /\ flowsOut = <<<<<<"a", "js">>, <<"b", "ts">>>>>>
    /\ keyDeps = [fallback |-> FALSE,
                  lines |-> <<[dep |-> FileB, count |-> 1], [dep |-> FileC, count |-> 1]>>]

---------------------------------------------------------------------------
(* C17 *)

\* the input files whose extraction fails: the read fails, or the text of a
\* source file does not parse
FailedFiles ==
    {f \in Range(files) : f \notin readable \/ (IsSource(f) /\ ~Parses(text[f]))}

\* the fields an analysis record can have
RecordFields == {"imports", "exports", "functions", "classes", "interfaces",
                 "types", "content", "type", "extension", "size"}

---------------------------------------------------------------------------
(* C18 *)

\* (u, v) is an edge of the graph: v is in the outbound list of node u
Edge(u, v) == v \in Range(DepsOf(graph, u))

\* the simple paths of the graph that start at node n
SimplePathsFrom(n) ==
    {p \in SeqUpTo(FlowNodes, Cardinality(FlowNodes)) :
        /\ p # <<>>
        /\ p[1] = n
        /\ NoDup(p)
        /\ \A k \in 1..(Len(p) - 1) : Edge(p[k], p[k + 1])}

\* C18: the chain findLongestDependencyChain returns for a root starts at
\* that root, repeats no node, follows an edge of the graph at every step,
\* and is as long as the longest simple path of the graph from that root.
C18_LongestSimplePath ==
    \A c \in 1..Len(chains) :
        /\ chains[c] \in SimplePathsFrom(chains[c][1])
        /\ chains[c][1] \in Range(graph.keys)
        /\ \A p \in SimplePathsFrom(chains[c][1]) : Len(p) <= Len(chains[c])

\* a.js imports b.ts and x.md, x.md imports b.ts: the longest path from a.js
\* goes through the second dependency
C18_Witness ==
    /\ pc = "flowsDone"
    /\ graph.keys = <<FileA, FileB, FileC>>
    /\ MapGet(graph, FileA).dependencies = <<FileB, FileC>>
    /\ MapGet(graph, FileB).dependencies = <<>>
    /\ MapGet(graph, FileC).dependencies = <<FileB>>
    /\ chains = <<<<FileA, FileC, FileB>>>>

---------------------------------------------------------------------------
(* C20 *)

\* the place of x's first occurrence in the list s
FirstIndex(s, x) == CHOOSE i \in 1..Len(s) : s[i] = x /\ \A j \in 1..(i - 1) : s[j] # x

\* the first place where two different paths of equal length differ
FirstDifference(p, q) == CHOOSE k \in 1..Len(p) : p[k] # q[k] /\ \A j \in 1..(k - 1) : p[j] = q[j]

\* C20: among the simple paths of maximal length from a root, the chain
\* returned is the one that, at the first node where it parts from any
\* other of them, takes the dependency listed earlier in that node's
\* outbound list.
C20_EarliestDependencyWins ==
    \A c \in 1..Len(chains) :
        \A p \in SimplePathsFrom(chains[c][1]) :
            (Len(p) = Len(chains[c]) /\ p # chains[c]) =>
                LET k == FirstDifference(chains[c], p)
                    deps == DepsOf(graph, p[k - 1])
                IN  FirstIndex(deps, chains[c][k]) < FirstIndex(deps, p[k])

\* a.js imports x.md then b.ts, and each of the two imports the other: both
\* paths from a.js have three nodes, and the one through x.md is returned
C20_Witness ==
    /\ pc = "flowsDone"
    /\ graph.keys = <<FileA, FileB, FileC>>
    /\ MapGet(graph, FileA).dependencies = <<FileC, FileB>>
    /\ MapGet(graph, FileB).dependencies = <<FileC>>
    /\ MapGet(graph, FileC).dependencies = <<FileB>>
    /\ chains = <<<<FileA, FileC, FileB>>>>

---------------------------------------------------------------------------
(* C19 (specification SpecFlowsWide) *)

RECURSIVE Keep(_, _, _)
\* the flows at the places K, in discovery order, from place i on
Keep(fl, K, i) ==
    IF i > Len(fl) THEN <<>>
    ELSE (IF i \in K THEN <<fl[i]>> ELSE <<>>) \o Keep(fl, K, i + 1)

\* C19: when more than five flows are recorded, the flows returned are five
\* of them in discovery order, and no flow left out is longer than a
\* returned one.
C19_TopFiveByLength ==
    (pc = "flowsDone" /\ Len(flows) > 5) =>
        \E K \in SUBSET (1..Len(flows)) :
            /\ Cardinality(K) = 5
            /\ flowsOut = Keep(flows, K, 1)
            /\ \A i \in (1..Len(flows)) \ K : \A j \in K :
                  Len(flows[i]) <= Len(flows[j])

\* five roots import hub.js directly and the sixth reaches it through
\* mid.js: the sixth flow, the only one of three nodes, is not returned
C19_Witness ==
    /\ pc = "flowsDone"
    /\ \A i \in 1..5 : MapGet(graph, W(i)).dependencies = <<Hub>>
    /\ MapGet(graph, W(6)).dependencies = <<Mid>>
    /\ Len(flows) = 6
    /\ Len(flows[6]) = 3
    /\ flowsOut = SubSeq(flows, 1, 5)
    /\ \A j \in 1..5 : Len(flowsOut[j]) = 2

---------------------------------------------------------------------------
(* C21 *)

\* C21: the roots searched from come in graph key order, no root lies on the
\* chain computed for an earlier root, and whenever the loop is at its head
\* or inside a later search every node of every chain computed so far is in
\* the global visited set.
C21_GlobalVisited ==
    /\ \A c, d \in 1..Len(chains) :
          c < d =>
             /\ MapIndex(graph, chains[c][1]) < MapIndex(graph, chains[d][1])
             /\ chains[d][1] \notin Range(chains[c])
    /\ \A c \in 1..Len(chains) : Range(chains[c]) \subseteq visited
    /\ pc = "dfs" => stack[1].file \notin visited

\* a.js and x.md both import b.ts, which comes between them in key order:
\* b.ts lies on the chain of a.js and is passed over as a root
C21_Witness ==
    /\ pc = "flowsDone"
    /\ graph.keys = <<FileA, FileB, FileC>>
    /\ MapGet(graph, FileA).dependencies = <<FileB>>
    /\ MapGet(graph, FileC).dependencies = <<FileB>>
    /\ chains = <<<<FileA, FileB>>, <<FileC, FileB>>>>
    /\ visited = {FileA, FileB, FileC}

---------------------------------------------------------------------------
(* C22 (specification SpecKeyDeps) *)

\* the places <<node index, list index>> where n is an outbound target
TargetSites(n) ==
    UNION {{<<k, j>> : j \in {j \in 1..Len(graph.val[k].dependencies) :
                                 graph.val[k].dependencies[j] = n}} :
           k \in 1..Len(graph.keys)}

Targets == UNION {Range(graph.val[k].dependencies) : k \in 1..Len(graph.keys)}

\* the lines report distinct targets, each with the number of times it is
\* an outbound target, at most 5 of them, by non-increasing count, leaving
\* out no target with a higher count than a listed one
RankedByOccurrence(lines) ==
    /\ Len(lines) = (IF Cardinality(Targets) < 5 THEN Cardinality(Targets) ELSE 5)
    /\ \A i \in 1..Len(lines) :
          /\ lines[i].dep \in Targets
          /\ lines[i].count = Cardinality(TargetSites(lines[i].dep))
    /\ \A i, j \in 1..Len(lines) :
          i < j => /\ lines[i].dep # lines[j].dep
                   /\ lines[i].count >= lines[j].count
    /\ \A n \in Targets :
          (\A i \in 1..Len(lines) : lines[i].dep # n) =>
             \A i \in 1..Len(lines) : lines[i].count >= Cardinality(TargetSites(n))

---------------------------------------------------------------------------
(* C23 (specification FairSpecPipeline) *)

\* file f has an import that resolves to f's own path
ImportsItself(f) ==
    /\ MapHas(analyses, f)
    /\ \E src \in Range(ImportSources(MapGet(analyses, f))) :
          resolveDependencyPath(f, src) = f

\* once the graph is built, a file that imports itself is in its own
\* outbound list and in its own inbound list
SelfLoopsKept ==
    pc \in AnalyticsPcs \cup {"built", "architectureDone"} =>
        \A f \in Range(files) :
            ImportsItself(f) =>
               /\ f \in Range(MapGet(graph, f).dependencies)
               /\ f \in Range(MapGet(graph, f).dependedOnBy)

\* no chain, finished or being built, holds a node twice
NoChainRepeats ==
    /\ \A c \in 1..Len(chains) : NoDup(chains[c])
    /\ \A i \in 1..Len(stack) : NoDup(stack[i].longestChain)

\* C23: a file whose import resolves to its own path stays in its own
\* outbound and inbound lists in the built graph, analyzeDataFlows on the
\* built graph returns, and no chain contains a node twice.
C23_SelfLoopsRetained ==
    /\ [](SelfLoopsKept /\ NoChainRepeats)
    /\ (pc = "flowLoop") ~> (pc = "flowsDone")

\* a.js imports './a' and './lib/b': the built graph has the self-edge both
\* ways, and the chain from a.js goes to b.ts without passing a.js again
C23_Witness ==
    /\ pc = "architectureDone"
    /\ files = <<FileA, FileB, FileC>>
    /\ ImportsItself(FileA)
    /\ MapGet(graph, FileA).dependencies = <<FileA, FileB>>
    /\ MapGet(graph, FileA).dependedOnBy = <<FileA>>
    /\ chains[1] = <<FileA, FileB>>

---------------------------------------------------------------------------
(* C24 (specification SpecTypes) *)

RECURSIVE Describe(_)
\* the description the claim gives a type
Describe(t) ==
    CASE t.type = "TSStringKeyword" -> "string"
      [] t.type = "TSNumberKeyword" -> "number"
      [] t.type = "TSBooleanKeyword" -> "boolean"
      [] t.type = "TSArrayType" -> Describe(t.elementType) \o "[]"
      [] t.type = "TSTypeReference" -> t.typeName.name
      [] OTHER -> "any"

\* the one statement of b.ts
TheStmt == text[FileB][1]

\* the record of b.ts holds, for every annotated property of the interface,
\* the description of the property's type
InterfaceTypesDescribed ==
    (pc = "analyze" /\ idx = 2 /\ TheStmt.k = "interface") =>
        LET r == MapGet(analyses, FileB) IN
        /\ Len(r.interfaces) = 1
        /\ Len(r.interfaces[1].properties) = Len(TheStmt.props)
        /\ \A i \in 1..Len(TheStmt.props) :
              TheStmt.props[i].typeAnnotation.type = "TSTypeAnnotation" =>
                 r.interfaces[1].properties[i].type =
                    Describe(TheStmt.props[i].typeAnnotation.typeAnnotation)

\* the record of b.ts holds, for the type alias, the description of its type
AliasTypeDescribed ==
    (pc = "analyze" /\ idx = 2 /\ TheStmt.k = "typeAlias") =>
        LET r == MapGet(analyses, FileB) IN
        /\ Len(r.types) = 1
        /\ r.types[1].type = Describe(TheStmt.typeAnnotation)

\* C24: for interface properties and for type aliases alike, the recorded
\* type of string, number or boolean is that name, of an array the
\* description of its element type followed by '[]', of a type reference
\* the referenced name, and of anything else 'any'.
C24_SyntacticTypes == InterfaceTypesDescribed /\ AliasTypeDescribed

\* `type ID = string` has been analysed and its recorded type is 'any'
C24_Witness ==
    /\ pc = "analyze" /\ idx = 2
    /\ TheStmt = TypeAliasStmt("ID", Keyword("TSStringKeyword"))
    /\ MapGet(analyses, FileB).types = <<[name |-> "ID", type |-> "any"]>>

---------------------------------------------------------------------------
(* C25 (specification SpecConstructs) *)

\* a.js and b.ts, which hold the same statements, have both been analysed
BothAnalysed == pc = "analyze" /\ idx = 3

\* C25: for the same import and export statements (exports of a
\* declaration, export lists, default exports) analyzeTypeScript records
\* the same import entries and the same export entries, in the same order,
\* as analyzeJavaScript.
C25_SameImportExportHandling ==
    BothAnalysed =>
        /\ MapGet(analyses, FileB).imports = MapGet(analyses, FileA).imports
        /\ MapGet(analyses, FileB).exports = MapGet(analyses, FileA).exports

\* both files are `export { a, b }`: a.js has two export entries, b.ts none
C25_Witness ==
    /\ BothAnalysed
    /\ text[FileA] = <<ExportListStmt(<<"a", "b">>)>>
    /\ text[FileB] = text[FileA]
    /\ MapGet(analyses, FileA).exports =
          <<[type |-> "named", name |-> "a"], [type |-> "named", name |-> "b"]>>
    /\ MapGet(analyses, FileB).exports = <<>>

---------------------------------------------------------------------------
(* C26 (specification SpecConstructs) *)

\* the function or class declaration of statement s has no id to read
CannotBeRead(s) ==
    /\ "declaration" \in DOMAIN s
    /\ s.declaration.type \in {"FunctionDeclaration", "ClassDeclaration"}
    /\ ~HasName(s.declaration.id)

\* the names of the readable declarations of type t, in source order
DeclaredNames(content, t) ==
    LET at == SelectSeq([i \in 1..Len(content) |-> i],
                        LAMBDA i : /\ "declaration" \in DOMAIN content[i]
                                   /\ content[i].declaration.type = t
                                   /\ ~CannotBeRead(content[i]))
    IN  [j \in 1..Len(at) |-> content[at[j]].declaration.id.name]

\* the import sources, in source order
ImportedSources(content) ==
    LET at == SelectSeq([i \in 1..Len(content) |-> i],
                        LAMBDA i : content[i].k = "import")
    IN  [j \in 1..Len(at) |-> content[at[j]].source]

RECURSIVE ExportedNames(_)
\* the exported names, in source order
ExportedNames(content) ==
    IF content = <<>> THEN <<>>
    ELSE LET s == Head(content)
             d == s.declaration
         IN  (CASE s.k = "export" -> <<s.name>>
                [] s.k = "exportList" -> s.names
                [] s.k = "exportDeclaration" -> <<d.id.name>>
                [] s.k = "exportDefault" ->
                      IF d.type = "Identifier" THEN <<d.name>>
                      ELSE IF d.type \in {"FunctionDeclaration", "ClassDeclaration"}
                              /\ ~CannotBeRead(s)
                           THEN <<d.id.name>>
                           ELSE <<"default">>
                [] OTHER -> <<>>)
             \o ExportedNames(Tail(content))

NamesOf(entries) == [i \in 1..Len(entries) |-> entries[i].name]

\* C26: a.js parses; its record is returned normally and holds every import,
\* export, function and class of the file that can be read, in source order,
\* whether or not another construct of the file cannot be read.
C26_PerConstructDegradation ==
    (pc = "analyze" /\ idx >= 2) =>
        /\ FileA \notin warned
        /\ MapHas(analyses, FileA)
        /\ LET content == text[FileA]
               r == MapGet(analyses, FileA)
           IN  /\ r.content = content
               /\ ImportSources(r) = ImportedSources(content)
               /\ NamesOf(r.exports) = ExportedNames(content)
               /\ NamesOf(r.functions) = DeclaredNames(content, "FunctionDeclaration")
               /\ NamesOf(r.classes) = DeclaredNames(content, "ClassDeclaration")

\* a.js is `function f(p, {}) {}`, `export default function () {}`,
\* `class C extends Base {...}`: the anonymous function is dropped, f, C and
\* the default export are recorded
C26_Witness ==
    /\ pc = "analyze" /\ idx >= 2
    /\ Len(text[FileA]) = 3
    /\ ~CannotBeRead(text[FileA][1])
    /\ CannotBeRead(text[FileA][2])
    /\ ~CannotBeRead(text[FileA][3])
    /\ NamesOf(MapGet(analyses, FileA).functions) = <<"f">>
    /\ NamesOf(MapGet(analyses, FileA).classes) = <<"C">>
    /\ MapGet(analyses, FileA).exports = <<[type |-> "default", name |-> "default"]>>

---------------------------------------------------------------------------
(* C27 (specification FairSpecRun) *)

RECURSIVE LastStart(_)
\* the index of the line the last progress.start wrote, 0 if there is none
LastStart(out) ==
    IF out = <<>> THEN 0
    ELSE IF Last(out).kind = "start" THEN Len(out)
    ELSE LastStart(Front(out))

\* the lines logged by the current call of executeCodeAnalysis
ThisRun == SubSeq(progress.out, LastStart(progress.out) + 1, Len(progress.out))

Logged(kind, message) == \E i \in 1..Len(ThisRun) : ThisRun[i] = Line(kind, message)

\* the main body of the current call has failed
MainBodyFailed == Logged("error", <<"Analysis failed">>)

\* a call is inside its try block
InMainBody == step \in {"clone", "version", "scan", "generate", "write", "finish"}

\* no removal is attempted before the main body has ended; when the call has
\* ended, removal has been attempted once, the call has thrown the main
\* body's error if the main body failed and has returned otherwise, whether
\* or not the removal failed
CleanupOnceOutcomeKept ==
    /\ (InMainBody \/ step = "cleanup") => rmCalls = 0
    /\ step = "done" =>
          /\ rmCalls = 1
          /\ Logged("starting", <<"Cleaning up">>)
          /\ IF MainBodyFailed
             THEN result.threw /\ result.value = pending /\ pending # "none"
             ELSE result = Return("undefined")

\* a call that has begun ends
CallEnds == (InMainBody \/ step = "cleanup") ~> (step = "done")

\* C27: in executeCodeAnalysis removal of the temp directory is attempted
\* exactly once, after the main body, on every path; a failure of the main
\* body is rethrown after the attempt, and a failure of the removal is only
\* warned about.
C27_CleanupAlwaysRuns == []CleanupOnceOutcomeKept /\ CallEnds

\* the clone failed and then the removal failed: the call has thrown the
\* clone's error
C27_Witness ==
    /\ step = "done"
    /\ MainBodyFailed
    /\ Logged("warn", <<"Cleanup failed">>)
    /\ result = Throw("clone")

\* the main body succeeded and the removal failed: the call has returned
C27_WitnessReturned ==
    /\ step = "done"
    /\ ~MainBodyFailed
    /\ Logged("warn", <<"Cleanup failed">>)
    /\ result = Return("undefined")

---------------------------------------------------------------------------
(* C30 (specification SpecRun) *)

\* the subtasks that have been added and not completed
Uncompleted ==
    {progress.subtasks.keys[i] : i \in {j \in 1..Len(progress.subtasks.keys) :
                                           ~progress.subtasks.val[j].completed}}

\* how many times the current call has reported the subtask as completed
Reports(name) ==
    Cardinality({i \in 1..Len(ThisRun) : ThisRun[i] = Line("completed", <<name>>)})

\* the subtasks executeCodeAnalysis and generateMarkdownFiles add before
\* progress.finish()
MainBodySubtasks ==
    {"Creating directories", "Cloning repository", "Getting version information",
     "Scanning files", "Generating documentation", "Analyzing files",
     "Building dependency graph", "Generating content sections",
     "Creating documentation files"}

\* C30: when progress.finish() runs every subtask added so far has been
\* completed, finish() warns of no uncompleted subtask, and no subtask is
\* reported as completed more than once.
C30_ProgressBookkeeping ==
    /\ step = "finish" =>
          /\ Uncompleted = {}
          /\ Range(progress.subtasks.keys) = MainBodySubtasks
    /\ \A i \in 1..Len(ThisRun) :
          ~(ThisRun[i].kind = "warn" /\ Head(ThisRun[i].text) = "Subtask not completed: ")
    /\ \A i \in 1..Len(progress.subtasks.keys) : Reports(progress.subtasks.keys[i]) <= 1

\* finish() has run in a call whose version lookup failed
C30_Witness ==
    /\ step = "cleanup"
    /\ Logged("finished", <<"Repository Analysis">>)
    /\ Logged("warn", <<"Could not determine version, using \"latest\"">>)
    /\ Logged("completed", <<"Getting version information">>)
    /\ Uncompleted = {}

---------------------------------------------------------------------------
(* C28 (specification SpecFlows) *)

\* the chains of more than one node, in the order they were computed
RECURSIVE LongChains(_)
LongChains(cs) ==
    IF cs = <<>> THEN <<>>
    ELSE (IF Len(Head(cs)) >= 2 THEN <<Head(cs)>> ELSE <<>>) \o LongChains(Tail(cs))

\* the root has no dependency but, possibly, itself
OnlySelfLoops(root) == Range(DepsOf(graph, root)) \subseteq {root}

\* C28: every flow pushed and every flow returned has at least two nodes;
\* the flows are those of the chains of two nodes or more; a root without
\* outbound edges other than self-loops has the chain of itself alone, which
\* yields no flow, and is in the global visited set all the same.
C28_NoSingleNodeFlows ==
    /\ \A i \in 1..Len(flows) : Len(flows[i]) >= 2
    /\ \A i \in 1..Len(flowsOut) : Len(flowsOut[i]) >= 2
    /\ Len(flows) = Len(LongChains(chains))
    /\ \A i \in 1..Len(flows) : flows[i] = FlowString(LongChains(chains)[i])
    /\ \A c \in 1..Len(chains) :
          /\ OnlySelfLoops(chains[c][1]) => chains[c] = <<chains[c][1]>>
          /\ chains[c][1] \in visited

\* a.js imports only itself and b.ts imports nothing: both were searched
\* from, neither yields a flow, both are visited
C28_Witness ==
    /\ pc = "flowsDone"
    /\ MapHas(graph, FileA) /\ MapHas(graph, FileB)
    /\ MapGet(graph, FileA).dependencies = <<FileA>>
    /\ MapGet(graph, FileB).dependencies = <<>>
    /\ <<FileA>> \in Range(chains)
    /\ <<FileB>> \in Range(chains)
    /\ {FileA, FileB} \subseteq visited
    /\ \A i \in 1..Len(flowsOut) : flowsOut[i][1] \notin {Basename(FileA), Basename(FileB)}

---------------------------------------------------------------------------
(* C29 (specification SpecScan) *)

\* the name matches an entry of config.excludePatterns
Excluded(name) ==
    \E i \in 1..Len(excludePatterns) : matchesGlobPattern(name, excludePatterns[i])

\* the names of a returned path below tempPath: the directories descended
\* into and the file
NamesBelow(fullPath) == SubSeq(fullPath, Len(TempPath) + 1, Len(fullPath))

\* C29: scanDirectory returns no file, and descends into no directory, whose
\* name matches an entry of config.excludePatterns, names that contain
\* 'lock' included.
C29_ExclusionComplete ==
    pc = "scanned" =>
        \A i \in 1..Len(results) :
           \A j \in 1..Len(NamesBelow(results[i])) : ~Excluded(NamesBelow(results[i])[j])

\* the directory holds clock.test.js and a.test.js: '*.test.js' matches
\* both, a.test.js is left out and clock.test.js is returned
C29_Witness ==
    /\ pc = "scanned"
    /\ tree = <<File(<<"c", "lock", ".", "test", ".", "js">>),
                File(<<"a", ".", "test", ".", "js">>)>>
    /\ matchesGlobPattern(tree[1].name, <<"*", ".", "test", ".", "js">>)
    /\ matchesGlobPattern(tree[2].name, <<"*", ".", "test", ".", "js">>)
    /\ results = <<Append(TempPath, <<"c", "lock", ".", "test", ".", "js">>)>>

===========================================================================
